---- MODULE Spec2Model ----
(***************************************************************************)
(* Product write orchestration of the flower-supply catalog: the admin     *)
(* handlers CreateProduct / UpdateProduct / DeleteProduct, the             *)
(* ProductService methods they call, the ProductRepository statements      *)
(* and the Cloudinary media store, as a state machine over the relational  *)
(* rows and the set of stored images.                                      *)
(*                                                                         *)
(* Conventions.  A Go string field that holds "" is 0 here, an image       *)
(* handle (Cloudinary public id) is a positive number h and the URL the    *)
(* store returns with it is -h.  A title is its length in bytes, a price   *)
(* a pair of whole units and cents.  Every relational statement and every  *)
(* media call may fail; a statement that waits for a row lock is not       *)
(* enabled.  Every successful upload returns a handle not returned before  *)
(* (the public id is code-color-unixtime: uploads are taken to differ in   *)
(* it).  Requests are served one at a time in Spec.                        *)
(***************************************************************************)
EXTENDS Integers, Sequences, FiniteSets, TLC

\* ---------------------------------------------------------------- bounds
MaxProductID == 2
MaxImages == 3
MaxNonIndexed == 2
MaxIndexed == 1
MaxRequests == 2
MaxConcurrentEntries == 1
MaxConcurrentIndexed == 0
MaxConcurrentDirect == 0
MaxCatalogProducts == 3
MaxPage == 3
MaxNameLen == 5
MaxCategoryID == 1

\* ------------------------------------------------------ program constants
MinTitleLen == 5
MaxTitleLen == 200
MinPriceCents == 1
MaxPriceWhole == 99999999
MaxPriceCents == 99
DefaultPageSize == 20
MaxPageSize == 100
SearchLimit == 50

\* ------------------------------------------------------------ input sets
Procs == {1, 2}
Codes == {"BRK-001", "BRK-002"}
RawColors == {"", "Gold", "Silver "}
\* a price is whole units and hundredths: 0.01 and 99,999,999.99 are the limits
Price(w, c) == [whole |-> w, cents |-> c]
MinPrice == Price(0, MinPriceCents)
MaxPrice == Price(MaxPriceWhole, MaxPriceCents)
PriceLess(a, b) == a.whole < b.whole \/ (a.whole = b.whole /\ a.cents < b.cents)
\* the product data a request submits: two valid products at the limits of
\* validateProduct, and one product just beyond each limit
Candidates ==
    { [code |-> "BRK-001", title |-> MinTitleLen,     price |-> MinPrice, isSold |-> "on"],
      [code |-> "BRK-002", title |-> MaxTitleLen,     price |-> MaxPrice, isSold |-> ""],
      [code |-> "BRK-001", title |-> MinTitleLen - 1, price |-> MinPrice, isSold |-> "true"],
      [code |-> "BRK-002", title |-> MaxTitleLen + 1, price |-> MaxPrice, isSold |-> ""],
      [code |-> "BRK-001", title |-> MinTitleLen,     price |-> Price(0, MinPriceCents - 1),
       isSold |-> "on"],
      [code |-> "BRK-002", title |-> MaxTitleLen,     price |-> Price(MaxPriceWhole + 1, 0),
       isSold |-> ""] }
FormEntries == [color : RawColors, photo : BOOLEAN]
\* form.Value["variants[][color]"] and form.File["variants[][photo]"]: two
\* lists; a photo is TRUE when the file at that position has Size > 0
NonIndexedForms ==
    [color : UNION { [1..n -> RawColors] : n \in 0..MaxNonIndexed },
     photo : UNION { [1..n -> BOOLEAN] : n \in 0..MaxNonIndexed }]
IndexedForms == UNION { [S -> FormEntries] : S \in SUBSET (1..MaxIndexed) }

VARIABLES
    products,   \* rows of table products
    variants,   \* committed rows of table product_variants
    nextID,     \* next value of the products id sequence
    media,      \* handles of the images the media store holds
    nextImg,    \* next handle the media store hands out
    req,        \* per request: position, locals, open transaction, history
    active,     \* the clients that send requests
    started,    \* the number of requests received so far
    categories, \* ids of the rows of table categories
    catReq,     \* the category administrator's request: position and locals
    view        \* the last answer of the read side: the query and its result

vars == <<products, variants, nextID, media, nextImg, req, active, started,
          categories, catReq, view>>

\* ------------------------------------------------------------- helpers
Range(s) == { s[i] : i \in DOMAIN s }

RECURSIVE Filter(_, _)
\* the subsequence of s whose elements are in the set keep
Filter(s, keep) ==
    IF s = <<>> THEN <<>>
    ELSE IF Head(s) \in keep THEN <<Head(s)>> \o Filter(Tail(s), keep)
         ELSE Filter(Tail(s), keep)

RECURSIVE SortedSeq(_)
\* the elements of a finite set of integers, ascending
SortedSeq(S) ==
    IF S = {} THEN <<>>
    ELSE LET m == CHOOSE x \in S : \A y \in S : x <= y
         IN <<m>> \o SortedSeq(S \ {m})

URLOf(h) == 0 - h

\* product.Variants of a direct call of the service: any color, with no photo
\* or with the URL and handle of an image the caller names
DirectHandles == {0, 1}
DirectEntries ==
    { [color |-> c, photoURL |-> URLOf(h), photoID |-> h] :
        c \in {"", "Gold", "Silver"}, h \in DirectHandles }
DirectVariants == UNION { [1..n -> DirectEntries] : n \in 0..MaxNonIndexed }

NoRow == [id |-> 0, code |-> "", title |-> 0, price |-> Price(0, 0),
          mainPhotoURL |-> 0, mainPhotoID |-> 0, categoryID |-> 0,
          isSold |-> FALSE]
NoTx == [open |-> FALSE, inserted |-> <<>>, deleted |-> FALSE]
NoAggregate == [row |-> NoRow, variants |-> {}, images |-> {}]

\* no category request in flight, no answer of the read side yet
IdleCatReq == [pc |-> "idle", id |-> 0, count |-> 0, referenced |-> FALSE, result |-> "none"]
NoView == [op |-> "none"]

IdleReq ==
    [pc |-> "idle", op |-> "none", via |-> "none", id |-> 0,
     cand |-> NoRow, isSoldRaw |-> "", mainPhoto |-> FALSE,
     todo |-> <<>>, variants |-> <<>>, hExisting |-> {},
     existing |-> NoAggregate, tx |-> NoTx, committed |-> FALSE,
     err |-> "none", result |-> "none",
     uploaded |-> {}, delIssued |-> {}, wrote |-> FALSE,
     uploadFailed |-> FALSE, codeTaken |-> FALSE, insertRejected |-> FALSE,
     failedAt |-> 0,
     deleteCalls |-> 0,
     before |-> NoAggregate, colors |-> {}, noBytes |-> {}, failedColors |-> {}]

\* the product row with this id, NoRow when there is none
RowOf(id) ==
    IF \E r \in products : r.id = id
    THEN CHOOSE r \in products : r.id = id
    ELSE NoRow

VariantsOf(id) == { v \in variants : v.productID = id }

\* the variant as the repository scans it into models.ProductVariant
AsVariant(v) == [color |-> v.color, photoURL |-> v.photoURL, photoID |-> v.photoID]

\* the handles an aggregate references
ImagesOf(row, vs) ==
    ({row.mainPhotoID} \cup { v.photoID : v \in vs }) \ {0}

\* the aggregate with this id as FindByID loads it
Aggregate(id) ==
    [row |-> RowOf(id),
     variants |-> { AsVariant(v) : v \in VariantsOf(id) },
     images |-> ImagesOf(RowOf(id), VariantsOf(id)) \cap media]

TypeOK ==
    /\ nextID \in 1..(MaxProductID + 1)
    /\ nextImg \in 1..(MaxImages + 1)
    /\ media \subseteq 1..MaxImages
    /\ active \subseteq Procs
    /\ \A r \in products : r.id \in 1..MaxProductID /\ r.code \in Codes
    /\ \A v \in variants : v.productID \in 1..MaxProductID

Init ==
    /\ products = {}
    /\ variants = {}
    /\ nextID = 1
    /\ media = {}
    /\ nextImg = 1
    /\ req = [p \in Procs |-> IdleReq]
    /\ active = {1}
    /\ started = 0
    /\ categories = {}
    /\ catReq = IdleCatReq
    /\ view = NoView


\* ------------------------------------------------------ scope of the inputs
\* with one client a submission has up to MaxNonIndexed non-indexed and
\* MaxIndexed indexed entries; with two clients, whose requests interleave,
\* up to MaxConcurrentEntries non-indexed and MaxConcurrentIndexed indexed,
\* and a direct call of the service passes up to MaxConcurrentDirect variants
EntryLimit(max) ==
    IF Cardinality(active) > 1 /\ MaxConcurrentEntries < max
    THEN MaxConcurrentEntries ELSE max

ScopedNonIndexed ==
    { f \in NonIndexedForms : /\ Len(f.color) <= EntryLimit(MaxNonIndexed)
                              /\ Len(f.photo) <= EntryLimit(MaxNonIndexed) }

ScopedIndexed ==
    { g \in IndexedForms :
        Cardinality(DOMAIN g) <= (IF Cardinality(active) > 1 THEN MaxConcurrentIndexed ELSE MaxIndexed) }

ScopedDirect ==
    { vs \in DirectVariants :
        Len(vs) <= (IF Cardinality(active) > 1 THEN MaxConcurrentDirect ELSE MaxNonIndexed) }

\* ------------------------------------------------- requests that may start
\* a request starts when its client has no request in flight
CanStart(p) ==
    /\ p \in active
    /\ req[p].pc = "idle"
    /\ started < MaxRequests
    /\ started' = started + 1

\* the response is sent: the client may start its next request
Return(p) ==
    /\ p \in active
    /\ req[p].pc = "done"
    /\ req' = [req EXCEPT ![p] = IdleReq]
    /\ UNCHANGED <<products, variants, nextID, media, nextImg, active, categories, catReq, view, started>>

Set(p, r) == req' = [req EXCEPT ![p] = r]

\* what a request keeps when it returns res: the deferred tx.Rollback() has
\* ended its transaction
Finish(r, res) ==
    [r EXCEPT !.pc = "done", !.result = res, !.err = "none", !.tx = NoTx,
              !.todo = <<>>, !.hExisting = {}]

\* --------------------------------------------------- form parsing (admin)
\* strings.TrimSpace on the raw form values of RawColors
TrimSpace(s) == CASE s = "Silver " -> "Silver" [] s = " " -> "" [] OTHER -> s

Ints(n) == [i \in 1..n |-> i]

\* positions of the non-indexed colors that survive `if color == "" continue`
KeptPositions(f) ==
    Filter(Ints(Len(f.color)),
           { i \in 1..Len(f.color) : TrimSpace(f.color[i]) # "" })

\* `i < len(nonIndexedPhotos) && nonIndexedPhotos[i].Size > 0`
HasPhotoAt(f, i) == i <= Len(f.photo) /\ f.photo[i]

\* CreateProduct: variants[][color]; photo i is looked up at the raw position
CreateNonIndexed(f) ==
    LET idx == KeptPositions(f)
    IN [j \in 1..Len(idx) |->
          [color |-> TrimSpace(f.color[idx[j]]), photo |-> HasPhotoAt(f, idx[j]),
           keep |-> FALSE]]

\* UpdateProduct: the kept colors are first collected in nonIndexedVariants,
\* and photo i is then looked up at the position in that collected list
UpdateNonIndexed(f) ==
    LET idx == KeptPositions(f)
    IN [j \in 1..Len(idx) |->
          [color |-> TrimSpace(f.color[idx[j]]), photo |-> HasPhotoAt(f, j),
           keep |-> TRUE]]

\* variants[N][color]: indices sorted ascending, entries without color
\* skipped; an indexed entry never copies an existing photo forward
IndexedVariants(g) ==
    LET idx == Filter(SortedSeq(DOMAIN g),
                      { i \in DOMAIN g : TrimSpace(g[i].color) # "" })
    IN [j \in 1..Len(idx) |->
          [color |-> TrimSpace(g[idx[j]].color), photo |-> g[idx[j]].photo,
           keep |-> FALSE]]

\* history: the non-empty colors a form submits
FormColors(f, g) ==
    ({ TrimSpace(c) : c \in Range(f.color) }
       \cup { TrimSpace(e.color) : e \in Range(g) }) \ {""}

\* history: the non-empty colors a direct call submits
DirectColors(vs) == { v.color : v \in Range(vs) } \ {""}

\* history: the colors of the submitted entries that carry no image bytes
NoBytesColors(f, g) ==
    ({ TrimSpace(f.color[i]) : i \in { j \in 1..Len(f.color) : ~HasPhotoAt(f, j) } }
       \cup { TrimSpace(e.color) : e \in { x \in Range(g) : ~x.photo } }) \ {""}

\* ------------------------------------------------------------ media store
\* what the store may answer to an upload that stored image h: PublicID,
\* SecureURL and URL, each possibly empty
UploadResponses(h) ==
    [publicID : {0, h}, secureURL : {0, URLOf(h)}, url : {0, URLOf(h)}]

UploadError == [url |-> 0, id |-> 0, err |-> TRUE]

\* the image URL is the secure URL, else the plain URL, else the one built
\* from the PublicID; an answer with no PublicID is an error
UploadProductImage_NoPublicIDCheck(resp) ==
    IF resp.publicID = 0 /\ resp.secureURL = 0 /\ resp.url = 0
    THEN UploadError
    ELSE [url |-> IF resp.secureURL # 0 THEN resp.secureURL
                  ELSE IF resp.url # 0 THEN resp.url
                  ELSE URLOf(resp.publicID),
          id |-> resp.publicID, err |-> FALSE]

UploadProductImage(resp) ==
    IF resp.publicID = 0 /\ resp.secureURL = 0 /\ resp.url = 0
    THEN UploadError
    ELSE LET imageURL == IF resp.secureURL # 0 THEN resp.secureURL
                         ELSE IF resp.url # 0 THEN resp.url
                         ELSE URLOf(resp.publicID)
         IN IF resp.publicID = 0
            THEN UploadError
            ELSE [url |-> imageURL, id |-> resp.publicID, err |-> FALSE]

\* the (url, id) pairs UploadProductImage returns without an error
UploadReturns(h) ==
    { res \in { UploadProductImage(resp) : resp \in UploadResponses(h) } : ~res.err }

\* UploadProductImage succeeded: the store holds a new image
Uploaded(h) ==
    /\ nextImg <= MaxImages
    /\ h = nextImg
    /\ media' = media \cup {h}
    /\ nextImg' = nextImg + 1

\* DeleteImage is called once for every handle of H; the calls of ok succeed
DeleteImages(H, ok) ==
    /\ ok \subseteq H
    /\ media' = media \ ok

\* ------------------------------------------------- AdminHandler.CreateProduct
StartCreate(p) ==
    /\ CanStart(p)
    /\ \E f \in ScopedNonIndexed, g \in ScopedIndexed :
         LET todo == CreateNonIndexed(f) \o IndexedVariants(g)
         IN Set(p, [IdleReq EXCEPT
                      !.pc = IF todo = <<>> THEN "CreateValidate" ELSE "HandlerVariant",
                      !.op = "create", !.via = "handler",
                      !.todo = todo, !.colors = FormColors(f, g)])
    /\ UNCHANGED <<products, variants, nextID, media, nextImg, active, categories, catReq, view>>

\* a direct call of ProductService.Create: no per-variant uploads
StartServiceCreate(p) ==
    /\ CanStart(p)
    /\ \E vs \in ScopedDirect :
         Set(p, [IdleReq EXCEPT !.pc = "CreateValidate", !.op = "create",
                                !.via = "service", !.variants = vs,
                                !.colors = DirectColors(vs)])
    /\ UNCHANGED <<products, variants, nextID, media, nextImg, active, categories, catReq, view>>

ServiceEntry(op) == IF op = "create" THEN "CreateValidate" ELSE "UpdateLoad"

\* fault injection for C36: a failed upload falls back to the existing photo
HandlerNoUpload_KeepsOnFailure(e, existingVariants) ==
    IF e.keep /\ \E v \in existingVariants : v.color = e.color
    THEN LET old == CHOOSE v \in existingVariants : v.color = e.color
         IN [color |-> e.color, photoURL |-> old.photoURL, photoID |-> old.photoID]
    ELSE [color |-> e.color, photoURL |-> 0, photoID |-> 0]

\* the variant the handler builds for entry e when no upload succeeded
HandlerNoUpload(e, existingVariants) ==
    IF ~e.photo /\ e.keep /\ \E v \in existingVariants : v.color = e.color
    THEN LET old == CHOOSE v \in existingVariants : v.color = e.color
         IN [color |-> e.color, photoURL |-> old.photoURL, photoID |-> old.photoID]
    ELSE [color |-> e.color, photoURL |-> 0, photoID |-> 0]

\* one round of the handler's loop over the submitted variants
HandlerVariant(p) ==
    LET r == req[p]
        e == Head(r.todo)
        next == IF Tail(r.todo) = <<>> THEN ServiceEntry(r.op) ELSE "HandlerVariant"
    IN /\ p \in active
       /\ r.pc = "HandlerVariant"
       /\ \/ /\ e.photo
             /\ \E h \in 1..MaxImages : \E res \in UploadReturns(h) :
                  /\ Uploaded(h)
                  /\ Set(p, [r EXCEPT !.pc = next, !.todo = Tail(r.todo),
                               !.variants = Append(r.variants,
                                   [color |-> e.color, photoURL |-> res.url, photoID |-> res.id]),
                               !.uploaded = r.uploaded \cup {h}])
          \/ /\ Set(p, [r EXCEPT !.pc = next, !.todo = Tail(r.todo),
                          !.variants = Append(r.variants, HandlerNoUpload(e, r.hExisting)),
                          !.failedColors = IF e.photo THEN r.failedColors \cup {e.color}
                                           ELSE r.failedColors])
             /\ UNCHANGED <<media, nextImg>>
       /\ UNCHANGED <<products, variants, nextID, active, categories, catReq, view, started>>

\* ---------------------------------------------------- ProductService.Create
ValidateProduct(c) ==
    IF c.title = 0 THEN "ErrTitleRequired"
    ELSE IF c.title < MinTitleLen THEN "ErrTitleShort"
    ELSE IF c.title > MaxTitleLen THEN "ErrTitleLong"
    ELSE IF PriceLess(c.price, MinPrice) THEN "ErrPriceLow"
    ELSE IF PriceLess(MaxPrice, c.price) THEN "ErrPriceHigh"
    ELSE "nil"

ValidationErrors ==
    {"ErrTitleRequired", "ErrTitleShort", "ErrTitleLong", "ErrPriceLow", "ErrPriceHigh"}

\* what `existing, _ := FindByCode(code)` can leave in existing: the row when
\* the query finds it, nil when there is none or the query failed
FindByCodeResults(code) ==
    { r \in products : r.code = code } \cup {NoRow}

\* the product struct the handler fills from the form
Submitted(c, cat) ==
    [NoRow EXCEPT !.code = c.code, !.title = c.title, !.price = c.price,
                  !.categoryID = cat]

\* the category_id of the form: none (0), or a category the form offers
CategoryChoices == {0} \cup categories

\* validateProduct, the uniqueness pre-check and db.Beginx
CreateValidate(p) ==
    LET r == req[p]
    IN /\ p \in active
       /\ r.pc = "CreateValidate"
       /\ \E c \in Candidates, cat \in CategoryChoices :
            LET r1 == [r EXCEPT !.cand = [Submitted(c, cat) EXCEPT
                                            !.isSold = c.isSold \in {"on", "true"}],
                                !.isSoldRaw = c.isSold,
                                !.codeTaken = \E q \in products : q.code = c.code]
            IN IF ValidateProduct(c) # "nil"
               THEN Set(p, Finish(r1, ValidateProduct(c)))
               ELSE \E existing \in FindByCodeResults(c.code) :
                      IF existing # NoRow
                      THEN Set(p, Finish(r1, "ErrCodeExists"))
                      ELSE \/ Set(p, Finish(r1, "ErrBegin"))
                           \/ \E mainPhoto \in BOOLEAN :
                                Set(p, [r1 EXCEPT
                                          !.pc = IF mainPhoto THEN "CreateUpload"
                                                 ELSE "CreateInsert",
                                          !.mainPhoto = mainPhoto,
                                          !.tx = [NoTx EXCEPT !.open = TRUE]])
       /\ UNCHANGED <<products, variants, nextID, media, nextImg, active, categories, catReq, view, started>>

\* the main photo goes to the media store before any row is written
CreateUpload(p) ==
    LET r == req[p]
    IN /\ p \in active
       /\ r.pc = "CreateUpload"
       /\ \/ \E h \in 1..MaxImages : \E res \in UploadReturns(h) :
               /\ Uploaded(h)
               /\ Set(p, [r EXCEPT !.pc = "CreateInsert",
                            !.cand = [r.cand EXCEPT !.mainPhotoURL = res.url,
                                                    !.mainPhotoID = res.id],
                            !.uploaded = r.uploaded \cup {h}])
          \/ /\ Set(p, Finish([r EXCEPT !.uploadFailed = TRUE], "ErrUpload"))
             /\ UNCHANGED <<media, nextImg>>
       /\ UNCHANGED <<products, variants, nextID, active, categories, catReq, view, started>>

\* the handles `if photoID != "" { DeleteImage(photoID) }` is called for
MainPhotoHandles(r) == {r.cand.mainPhotoID} \ {0}

\* fault injection for C11: the insert does not enforce UNIQUE(code)
InsertProduct_NoUniqueCode(row) ==
    /\ nextID <= MaxProductID
    /\ row.categoryID \in {0} \cup categories
    /\ products' = products \cup {[row EXCEPT !.id = nextID]}
    /\ nextID' = nextID + 1

\* INSERT INTO products succeeds: code is UNIQUE, category_id is NULL or
\* references a category, id comes from the sequence
InsertProduct(row) ==
    /\ nextID <= MaxProductID
    /\ row.categoryID \in {0} \cup categories
    /\ \A q \in products : q.code # row.code
    /\ products' = products \cup {[row EXCEPT !.id = nextID]}
    /\ nextID' = nextID + 1

\* fault injection for C19: a failed productRepo.Create leaves the uploaded
\* main photo in the media store
CreateInsert_NoCompensation(p) ==
    LET r == req[p]
    IN /\ p \in active
       /\ r.pc = "CreateInsert"
       /\ \/ /\ InsertProduct(r.cand)
             /\ Set(p, [r EXCEPT !.pc = IF Len(r.variants) > 0 THEN "CreateVariants"
                                        ELSE "CreateCommit",
                                 !.id = nextID, !.cand = [r.cand EXCEPT !.id = nextID],
                                 !.wrote = TRUE])
             /\ UNCHANGED <<media>>
          \/ /\ Set(p, Finish([r EXCEPT !.wrote = TRUE,
                                 !.insertRejected = \E q \in products : q.code = r.cand.code],
                              "ErrCreateProduct"))
             /\ UNCHANGED <<products, nextID, media>>
       /\ UNCHANGED <<variants, nextImg, active, categories, catReq, view, started>>

\* productRepo.Create on the pool connection (outside tx); on failure the
\* uploaded main photo is deleted
CreateInsert(p) ==
    LET r == req[p]
    IN /\ p \in active
       /\ r.pc = "CreateInsert"
       /\ \/ /\ InsertProduct(r.cand)
             /\ Set(p, [r EXCEPT !.pc = IF Len(r.variants) > 0 THEN "CreateVariants"
                                        ELSE "CreateCommit",
                                 !.id = nextID, !.cand = [r.cand EXCEPT !.id = nextID],
                                 !.wrote = TRUE])
             /\ UNCHANGED <<media>>
          \/ /\ \E ok \in SUBSET MainPhotoHandles(r) :
                  DeleteImages(MainPhotoHandles(r), ok)
             /\ Set(p, Finish([r EXCEPT !.wrote = TRUE,
                                 !.insertRejected = \E q \in products : q.code = r.cand.code,
                                 !.delIssued = r.delIssued \cup MainPhotoHandles(r)],
                              "ErrCreateProduct"))
             /\ UNCHANGED <<products, nextID>>
       /\ UNCHANGED <<variants, nextImg, active, categories, catReq, view, started>>


\* --------------------------------------------------- variant transaction
\* an open transaction that inserted a variant holds a key-share lock on the
\* product row its foreign key references, until it commits or rolls back
HoldsRowLock(q, id) ==
    /\ req[q].tx.open
    /\ req[q].id = id
    /\ Len(req[q].tx.inserted) > 0

Locked(id) == \E q \in Procs : HoldsRowLock(q, id)

\* the colors a transaction of product id sees before it inserts vs[i]
ColorsSeen(id, tx, vs, i) ==
    (IF tx.deleted THEN {} ELSE { v.color : v \in VariantsOf(id) })
      \cup { vs[j].color : j \in 1..(i - 1) }

\* CreateVariants inserts vs[1..k] without error: the product row exists and
\* UNIQUE(product_id, color) holds for each
Insertable(id, tx, vs, k) ==
    /\ k \in 0..Len(vs)
    /\ k > 0 => RowOf(id) # NoRow
    /\ \A i \in 1..k : vs[i].color \notin ColorsSeen(id, tx, vs, i)

VariantRows(id, vs) ==
    { [productID |-> id, color |-> v.color, photoURL |-> v.photoURL,
       photoID |-> v.photoID] : v \in Range(vs) }

\* fault injection for C6: the commit publishes the inserts but not the delete
CommitTx_InsertOnly(id, tx) ==
    variants' = variants \cup VariantRows(id, tx.inserted)

\* tx.Commit succeeded: the deletes and inserts of the transaction are visible
CommitTx(id, tx) ==
    variants' = (IF tx.deleted THEN variants \ VariantsOf(id) ELSE variants)
                  \cup VariantRows(id, tx.inserted)

\* DELETE FROM products WHERE id = $1, cascading to product_variants
DeleteProductRow(id) ==
    /\ products' = products \ {RowOf(id)}
    /\ variants' = variants \ VariantsOf(id)

HasEmptyColor(vs) == \E i \in 1..Len(vs) : vs[i].color = ""

\* the variant loop of Create: the color check, then CreateVariants(tx, ...);
\* on either failure the main photo is deleted and the product row is next
CreateVariants(p) ==
    LET r == req[p]
        H == MainPhotoHandles(r)
    IN /\ p \in active
       /\ r.pc = "CreateVariants"
       /\ \/ /\ HasEmptyColor(r.variants)
             /\ \E ok \in SUBSET H : DeleteImages(H, ok)
             /\ Set(p, [r EXCEPT !.pc = "CreateUndo", !.err = "ErrVariantColor",
                                 !.delIssued = r.delIssued \cup H])
          \/ /\ ~HasEmptyColor(r.variants)
             /\ \E k \in 0..Len(r.variants) :
                  /\ Insertable(r.id, r.tx, r.variants, k)
                  /\ IF k = Len(r.variants)
                     THEN /\ Set(p, [r EXCEPT !.pc = "CreateCommit", !.wrote = TRUE,
                                       !.tx = [r.tx EXCEPT !.inserted = r.variants]])
                          /\ UNCHANGED media
                     ELSE /\ \E ok \in SUBSET H : DeleteImages(H, ok)
                          /\ Set(p, [r EXCEPT !.pc = "CreateUndo", !.wrote = TRUE,
                                       !.err = "ErrCreateVariants",
                                       !.failedAt = k + 1,
                                       !.tx = [r.tx EXCEPT
                                                 !.inserted = SubSeq(r.variants, 1, k)],
                                       !.delIssued = r.delIssued \cup H])
       /\ UNCHANGED <<products, variants, nextID, nextImg, active, categories, catReq, view, started>>

\* `_ = s.productRepo.Delete(product.ID)`: the manual rollback of the product
\* row, on the pool connection while tx is still open; its error is dropped
CreateUndo(p) ==
    LET r == req[p]
    IN /\ p \in active
       /\ r.pc = "CreateUndo"
       /\ ~Locked(r.id)
       /\ \/ DeleteProductRow(r.id)
          \/ UNCHANGED <<products, variants>>
       /\ Set(p, Finish(r, r.err))
       /\ UNCHANGED <<nextID, media, nextImg, active, categories, catReq, view, started>>

\* tx.Commit; on failure only the main photo is deleted
CreateCommit(p) ==
    LET r == req[p]
        H == MainPhotoHandles(r)
    IN /\ p \in active
       /\ r.pc = "CreateCommit"
       /\ \/ /\ CommitTx(r.id, r.tx)
             /\ Set(p, Finish([r EXCEPT !.committed = TRUE], "nil"))
             /\ UNCHANGED media
          \/ /\ \E ok \in SUBSET H : DeleteImages(H, ok)
             /\ Set(p, Finish([r EXCEPT !.delIssued = r.delIssued \cup H], "ErrCommit"))
             /\ UNCHANGED variants
       /\ UNCHANGED <<products, nextID, nextImg, active, categories, catReq, view, started>>

\* ---------------------------------------------------- ProductService.Delete
\* DeleteProduct / Delete: the id check and FindByID
StartDelete(p) ==
    /\ CanStart(p)
    /\ \E id \in 0..MaxProductID :
         LET r == [IdleReq EXCEPT !.op = "delete", !.via = "handler", !.id = id,
                                  !.before = Aggregate(id)]
         IN IF id <= 0
            THEN Set(p, Finish(r, "ErrInvalidID"))
            ELSE \/ Set(p, Finish(r, "ErrNotFound"))
                 \/ /\ RowOf(id) # NoRow
                    /\ Set(p, [r EXCEPT !.pc = "DeleteRow", !.existing = Aggregate(id)])
    /\ UNCHANGED <<products, variants, nextID, media, nextImg, active, categories, catReq, view>>

\* fault injection for C15: the photos are deleted before the row, so a failed
\* row deletion has already issued media deletes
DeleteRow_MediaFirst(p) ==
    LET r == req[p]
        H == ({r.existing.row.mainPhotoID}
                \cup { v.photoID : v \in r.existing.variants }) \ {0}
    IN /\ p \in active
       /\ r.pc = "DeleteRow"
       /\ ~Locked(r.id)
       /\ \E ok \in SUBSET H : DeleteImages(H, ok)
       /\ \/ /\ RowOf(r.id) # NoRow
             /\ DeleteProductRow(r.id)
             /\ Set(p, [r EXCEPT !.pc = "DeleteMedia", !.wrote = TRUE,
                                 !.delIssued = r.delIssued \cup H])
          \/ /\ Set(p, Finish([r EXCEPT !.wrote = TRUE,
                                        !.delIssued = r.delIssued \cup H],
                              "ErrDeleteProduct"))
             /\ UNCHANGED <<products, variants>>
       /\ UNCHANGED <<nextID, nextImg, active, categories, catReq, view, started>>

\* productRepo.Delete(id)
DeleteRow(p) ==
    LET r == req[p]
    IN /\ p \in active
       /\ r.pc = "DeleteRow"
       /\ ~Locked(r.id)
       /\ \/ /\ RowOf(r.id) # NoRow
             /\ DeleteProductRow(r.id)
             /\ Set(p, [r EXCEPT !.pc = "DeleteMedia", !.wrote = TRUE])
          \/ /\ Set(p, Finish([r EXCEPT !.wrote = TRUE], "ErrDeleteProduct"))
             /\ UNCHANGED <<products, variants>>
       /\ UNCHANGED <<nextID, media, nextImg, active, categories, catReq, view, started>>

\* the handles Delete calls DeleteImage for: the main photo, every variant photo
DeleteHandles(agg) ==
    ({agg.row.mainPhotoID} \cup { v.photoID : v \in agg.variants }) \ {0}

\* the number of DeleteImage calls Delete makes: one for a non-empty main photo
\* id, one for each variant with a non-empty photo id
DeleteCallCount(agg) ==
    (IF agg.row.mainPhotoID # 0 THEN 1 ELSE 0)
      + Cardinality({ v \in agg.variants : v.photoID # 0 })

\* fault injection for C16: a DeleteImage call that failed is made again
DeleteMedia_RetryFailed(p) ==
    LET r == req[p]
        H == DeleteHandles(r.existing)
    IN /\ p \in active
       /\ r.pc = "DeleteMedia"
       /\ \E ok \in SUBSET H :
            /\ DeleteImages(H, ok)
            /\ Set(p, Finish([r EXCEPT !.delIssued = r.delIssued \cup H,
                                       !.deleteCalls = DeleteCallCount(r.existing)
                                                         + Cardinality(H \ ok)],
                             "nil"))
       /\ UNCHANGED <<products, variants, nextID, nextImg, active, categories, catReq, view, started>>

\* the DeleteImage calls of Delete, their errors dropped; Delete returns nil
DeleteMedia(p) ==
    LET r == req[p]
        H == DeleteHandles(r.existing)
    IN /\ p \in active
       /\ r.pc = "DeleteMedia"
       /\ \E ok \in SUBSET H : DeleteImages(H, ok)
       /\ Set(p, Finish([r EXCEPT !.delIssued = r.delIssued \cup H,
                                  !.deleteCalls = DeleteCallCount(r.existing)], "nil"))
       /\ UNCHANGED <<products, variants, nextID, nextImg, active, categories, catReq, view, started>>

\* ------------------------------------------------- AdminHandler.UpdateProduct
\* fault injection for C17: the handler parses the form and uploads the variant
\* photos without looking the product up first
StartUpdate_NoLookup(p) ==
    /\ CanStart(p)
    /\ \E id \in 0..MaxProductID :
         LET r == [IdleReq EXCEPT !.op = "update", !.via = "handler", !.id = id,
                                  !.before = Aggregate(id)]
         IN IF id <= 0
            THEN Set(p, Finish(r, "ErrNotFound"))
            ELSE \/ Set(p, Finish(r, "ErrNotFound"))
                 \/ /\ id \in 1..MaxProductID
                    /\ \E f \in ScopedNonIndexed, g \in ScopedIndexed :
                         LET todo == UpdateNonIndexed(f) \o IndexedVariants(g)
                         IN Set(p, [r EXCEPT
                                      !.pc = IF todo = <<>> THEN "UpdateLoad"
                                             ELSE "HandlerVariant",
                                      !.todo = todo,
                                      !.hExisting = Aggregate(id).variants,
                                      !.colors = FormColors(f, g),
                                      !.noBytes = NoBytesColors(f, g)])
    /\ UNCHANGED <<products, variants, nextID, media, nextImg, active, categories, catReq, view>>

\* the id parameter, GetByID for existingVariantsMap, and the form
StartUpdate(p) ==
    /\ CanStart(p)
    /\ \E id \in 0..MaxProductID :
         LET r == [IdleReq EXCEPT !.op = "update", !.via = "handler", !.id = id,
                                  !.before = Aggregate(id)]
         IN IF id <= 0
            THEN Set(p, Finish(r, "ErrNotFound"))
            ELSE \/ Set(p, Finish(r, "ErrNotFound"))
                 \/ /\ RowOf(id) # NoRow
                    /\ \E f \in ScopedNonIndexed, g \in ScopedIndexed :
                         LET todo == UpdateNonIndexed(f) \o IndexedVariants(g)
                         IN Set(p, [r EXCEPT
                                      !.pc = IF todo = <<>> THEN "UpdateLoad"
                                             ELSE "HandlerVariant",
                                      !.todo = todo,
                                      !.hExisting = Aggregate(id).variants,
                                      !.colors = FormColors(f, g),
                                      !.noBytes = NoBytesColors(f, g)])
    /\ UNCHANGED <<products, variants, nextID, media, nextImg, active, categories, catReq, view>>

\* a direct call of ProductService.Update
StartServiceUpdate(p) ==
    /\ CanStart(p)
    /\ \E id \in 0..MaxProductID, vs \in ScopedDirect :
         Set(p, [IdleReq EXCEPT !.pc = "UpdateLoad", !.op = "update",
                                !.via = "service", !.id = id, !.variants = vs,
                                !.colors = DirectColors(vs),
                                !.before = Aggregate(id)])
    /\ UNCHANGED <<products, variants, nextID, media, nextImg, active, categories, catReq, view>>

\* ---------------------------------------------------- ProductService.Update
\* the id check, FindByID, validateProduct, the uniqueness check of a changed
\* code, and the choice between a new main photo and the existing one
UpdateLoad(p) ==
    LET r == req[p]
    IN /\ p \in active
       /\ r.pc = "UpdateLoad"
       /\ IF r.id <= 0
          THEN Set(p, Finish(r, "ErrInvalidID"))
          ELSE \/ Set(p, Finish(r, "ErrNotFound"))
               \/ /\ RowOf(r.id) # NoRow
                  /\ \E c \in Candidates, cat \in CategoryChoices :
                       LET existing == Aggregate(r.id)
                           r1 == [r EXCEPT !.existing = existing,
                                           !.isSoldRaw = c.isSold,
                                           !.cand = [Submitted(c, cat) EXCEPT
                                               !.id = r.id,
                                               !.isSold = r.via = "service"
                                                          /\ c.isSold \in {"on", "true"}]]
                       IN IF ValidateProduct(c) # "nil"
                          THEN Set(p, Finish(r1, ValidateProduct(c)))
                          ELSE \E codeExists \in
                                   IF c.code # existing.row.code
                                   THEN FindByCodeResults(c.code) ELSE {NoRow} :
                                 IF codeExists # NoRow
                                 THEN Set(p, Finish(r1, "ErrCodeExists"))
                                 ELSE \/ Set(p, [r1 EXCEPT !.pc = "UpdateUpload",
                                                           !.mainPhoto = TRUE])
                                      \/ Set(p, [r1 EXCEPT !.pc = "UpdateBegin",
                                                   !.cand = [r1.cand EXCEPT
                                                       !.mainPhotoURL = existing.row.mainPhotoURL,
                                                       !.mainPhotoID = existing.row.mainPhotoID]])
       /\ UNCHANGED <<products, variants, nextID, media, nextImg, active, categories, catReq, view, started>>

\* fault injection for C14: the old main photo is deleted before the upload,
\* whatever the upload returns
UpdateUpload_DeleteFirst(p) ==
    LET r == req[p]
        old == {r.existing.row.mainPhotoID} \ {0}
    IN /\ p \in active
       /\ r.pc = "UpdateUpload"
       /\ \/ \E h \in 1..MaxImages : \E res \in UploadReturns(h), ok \in SUBSET old :
               /\ nextImg <= MaxImages
               /\ h = nextImg
               /\ nextImg' = nextImg + 1
               /\ media' = (media \cup {h}) \ ok
               /\ Set(p, [r EXCEPT !.pc = "UpdateBegin",
                            !.cand = [r.cand EXCEPT !.mainPhotoURL = res.url,
                                                    !.mainPhotoID = res.id],
                            !.uploaded = r.uploaded \cup {h},
                            !.delIssued = r.delIssued \cup old])
          \/ \E ok \in SUBSET old :
               /\ media' = media \ ok
               /\ Set(p, Finish([r EXCEPT !.uploadFailed = TRUE,
                                          !.delIssued = r.delIssued \cup old],
                                "ErrUpload"))
               /\ UNCHANGED nextImg
       /\ UNCHANGED <<products, variants, nextID, active, categories, catReq, view, started>>

\* the replacement main photo is uploaded, then the old one is deleted
UpdateUpload(p) ==
    LET r == req[p]
        old == {r.existing.row.mainPhotoID} \ {0}
    IN /\ p \in active
       /\ r.pc = "UpdateUpload"
       /\ \/ \E h \in 1..MaxImages : \E res \in UploadReturns(h), ok \in SUBSET old :
               /\ nextImg <= MaxImages
               /\ h = nextImg
               /\ nextImg' = nextImg + 1
               /\ media' = (media \cup {h}) \ ok
               /\ Set(p, [r EXCEPT !.pc = "UpdateBegin",
                            !.cand = [r.cand EXCEPT !.mainPhotoURL = res.url,
                                                    !.mainPhotoID = res.id],
                            !.uploaded = r.uploaded \cup {h},
                            !.delIssued = r.delIssued \cup old])
          \/ /\ Set(p, Finish([r EXCEPT !.uploadFailed = TRUE], "ErrUpload"))
             /\ UNCHANGED <<media, nextImg>>
       /\ UNCHANGED <<products, variants, nextID, active, categories, catReq, view, started>>

\* the handles `if newPhoto != nil && product.MainPhotoID != ""` deletes
NewMainHandles(r) == IF r.mainPhoto THEN {r.cand.mainPhotoID} \ {0} ELSE {}

\* UPDATE products ... WHERE id = $9 succeeds: the row exists, code stays
\* UNIQUE, category_id is NULL or references a category
UpdateProductRow(row) ==
    /\ RowOf(row.id) # NoRow
    /\ row.categoryID \in {0} \cup categories
    /\ \A q \in products : q.id # row.id => q.code # row.code
    /\ products' = (products \ {RowOf(row.id)}) \cup {row}

\* db.Beginx, then productRepo.Update on the pool connection (outside tx)
UpdateBegin(p) ==
    LET r == req[p]
        H == NewMainHandles(r)
    IN /\ p \in active
       /\ r.pc = "UpdateBegin"
       /\ \/ /\ \E ok \in SUBSET H : DeleteImages(H, ok)
             /\ Set(p, Finish([r EXCEPT !.delIssued = r.delIssued \cup H], "ErrBegin"))
             /\ UNCHANGED products
          \/ /\ \E ok \in SUBSET H : DeleteImages(H, ok)
             /\ Set(p, Finish([r EXCEPT !.delIssued = r.delIssued \cup H,
                                        !.wrote = TRUE], "ErrUpdateProduct"))
             /\ UNCHANGED products
          \/ /\ UpdateProductRow(r.cand)
             /\ Set(p, [r EXCEPT !.pc = "UpdateDeleteVariants", !.wrote = TRUE,
                                 !.tx = [NoTx EXCEPT !.open = TRUE]])
             /\ UNCHANGED media
       /\ UNCHANGED <<variants, nextID, nextImg, active, categories, catReq, view, started>>

\* the photo ids of the submitted variants: these are not deleted
PreservedPhotoIDs(vs) == { v.photoID : v \in Range(vs) } \ {0}

\* fault injection for C7: with an empty submission no old photo is deleted
OrphanPhotoIDs_NoneWhenEmpty(existingVariants, vs) ==
    IF Len(vs) > 0
    THEN { old.photoID : old \in existingVariants } \ (PreservedPhotoIDs(vs) \cup {0})
    ELSE {}

\* the old variant photos Update deletes from the media store
OrphanPhotoIDs(existingVariants, vs) ==
    IF Len(vs) > 0
    THEN { old.photoID : old \in existingVariants } \ (PreservedPhotoIDs(vs) \cup {0})
    ELSE { old.photoID : old \in existingVariants } \ {0}

\* DeleteVariantsByProductID(tx, id), then the DeleteImage calls for the old
\* variant photos
UpdateDeleteVariants(p) ==
    LET r == req[p]
        H == IF Len(r.variants) > 0 THEN NewMainHandles(r) ELSE {}
        O == OrphanPhotoIDs(r.existing.variants, r.variants)
    IN /\ p \in active
       /\ r.pc = "UpdateDeleteVariants"
       /\ \/ /\ \E ok \in SUBSET H : DeleteImages(H, ok)
             /\ Set(p, Finish([r EXCEPT !.delIssued = r.delIssued \cup H],
                              "ErrDeleteVariants"))
          \/ /\ \E ok \in SUBSET O : DeleteImages(O, ok)
             /\ Set(p, [r EXCEPT !.pc = IF Len(r.variants) > 0
                                        THEN "UpdateCreateVariants" ELSE "UpdateCommit",
                                 !.tx = [r.tx EXCEPT !.deleted = TRUE],
                                 !.delIssued = r.delIssued \cup O])
       /\ UNCHANGED <<products, variants, nextID, nextImg, active, categories, catReq, view, started>>

\* the handles deleted when CreateVariants or Commit fails in Update
UpdateRollbackHandles(r) == NewMainHandles(r) \cup PreservedPhotoIDs(r.variants)

\* the color check, then CreateVariants(tx, id, product.Variants)
UpdateCreateVariants(p) ==
    LET r == req[p]
    IN /\ p \in active
       /\ r.pc = "UpdateCreateVariants"
       /\ \/ /\ HasEmptyColor(r.variants)
             /\ \E ok \in SUBSET NewMainHandles(r) : DeleteImages(NewMainHandles(r), ok)
             /\ Set(p, Finish([r EXCEPT !.delIssued = r.delIssued \cup NewMainHandles(r)],
                              "ErrVariantColor"))
          \/ /\ ~HasEmptyColor(r.variants)
             /\ \E k \in 0..Len(r.variants) :
                  /\ Insertable(r.id, r.tx, r.variants, k)
                  /\ IF k = Len(r.variants)
                     THEN /\ Set(p, [r EXCEPT !.pc = "UpdateCommit",
                                       !.tx = [r.tx EXCEPT !.inserted = r.variants]])
                          /\ UNCHANGED media
                     ELSE LET H == UpdateRollbackHandles(r)
                          IN /\ \E ok \in SUBSET H : DeleteImages(H, ok)
                             /\ Set(p, Finish([r EXCEPT !.delIssued = r.delIssued \cup H,
                                                        !.failedAt = k + 1],
                                              "ErrCreateVariants"))
       /\ UNCHANGED <<products, variants, nextID, nextImg, active, categories, catReq, view, started>>

\* tx.Commit
UpdateCommit(p) ==
    LET r == req[p]
        H == UpdateRollbackHandles(r)
    IN /\ p \in active
       /\ r.pc = "UpdateCommit"
       /\ \/ /\ CommitTx(r.id, r.tx)
             /\ Set(p, Finish([r EXCEPT !.committed = TRUE], "nil"))
             /\ UNCHANGED media
          \/ /\ \E ok \in SUBSET H : DeleteImages(H, ok)
             /\ Set(p, Finish([r EXCEPT !.delIssued = r.delIssued \cup H], "ErrCommit"))
             /\ UNCHANGED variants
       /\ UNCHANGED <<products, nextID, nextImg, active, categories, catReq, view, started>>

\* ----------------------------------------------------------- specification
\* ------------------------------------------------- ProductService.GetByID
\* fault injection for C21: the read sees the rows open transactions have
\* inserted and not committed
FindByID_ReadUncommitted(id) ==
    [row |-> RowOf(id),
     variants |-> { AsVariant(v) : v \in VariantsOf(id) }
                    \cup UNION { Range(req[q].tx.inserted) :
                                   q \in { x \in Procs : req[x].tx.open /\ req[x].id = id } },
     images |-> ImagesOf(RowOf(id), VariantsOf(id)) \cap media]

\* FindByID on the pool connection: the committed product row and the
\* committed variant rows of the product
FindByID(id) == Aggregate(id)

\* a reader asks for one product: the id check, then FindByID
GetByID(p) ==
    /\ CanStart(p)
    /\ \E id \in 0..MaxProductID :
         LET r == [IdleReq EXCEPT !.op = "getByID", !.via = "service", !.id = id]
         IN IF id <= 0
            THEN Set(p, Finish(r, "ErrInvalidID"))
            ELSE \/ Set(p, Finish(r, "ErrFetch"))
                 \/ /\ RowOf(id) # NoRow
                    /\ Set(p, Finish([r EXCEPT !.existing = FindByID(id)], "nil"))
    /\ UNCHANGED <<products, variants, nextID, media, nextImg, active, categories, catReq, view>>

\* the steps of the request client p is being served
Step(p) ==
    \/ StartCreate(p) \/ StartServiceCreate(p) \/ HandlerVariant(p)
    \/ CreateValidate(p) \/ CreateUpload(p) \/ CreateInsert(p)
    \/ CreateVariants(p) \/ CreateUndo(p) \/ CreateCommit(p)
    \/ StartUpdate(p) \/ StartServiceUpdate(p)
    \/ UpdateLoad(p) \/ UpdateUpload(p) \/ UpdateBegin(p)
    \/ UpdateDeleteVariants(p) \/ UpdateCreateVariants(p) \/ UpdateCommit(p)
    \/ StartDelete(p) \/ DeleteRow(p) \/ DeleteMedia(p)
    \/ GetByID(p)
    \/ Return(p)

Next == \E p \in Procs : Step(p)

Spec == Init /\ [][Next]_vars

\* two clients: their requests interleave at every store call
InitConcurrent ==
    /\ products = {}
    /\ variants = {}
    /\ nextID = 1
    /\ media = {}
    /\ nextImg = 1
    /\ req = [p \in Procs |-> IdleReq]
    /\ active = Procs
    /\ started = 0
    /\ categories = {}
    /\ catReq = IdleCatReq
    /\ view = NoView

SpecConcurrent == InitConcurrent /\ [][Next]_vars

\* every request handler keeps running: a step of a request that can be taken
\* is eventually taken, and every store call that can return does return
Fairness == \A p \in Procs : WF_vars(Step(p))

SpecFair == Init /\ [][Next]_vars /\ Fairness

\* two admins work on one stored product: BRK-001 with its main photo
\* (image 1) and the variant Gold with its photo (image 2), as a create
\* through the handler leaves it; their requests are updates and deletes
SharedRow ==
    [id |-> 1, code |-> "BRK-001", title |-> MinTitleLen, price |-> MinPrice,
     mainPhotoURL |-> URLOf(1), mainPhotoID |-> 1, categoryID |-> 0, isSold |-> FALSE]

InitShared ==
    /\ products = {SharedRow}
    /\ variants = {[productID |-> 1, color |-> "Gold", photoURL |-> URLOf(2), photoID |-> 2]}
    /\ nextID = 2
    /\ media = {1, 2}
    /\ nextImg = 3
    /\ req = [p \in Procs |-> IdleReq]
    /\ active = Procs
    /\ started = 0
    /\ categories = {}
    /\ catReq = IdleCatReq
    /\ view = NoView

NextShared ==
    \E p \in Procs :
        \/ StartUpdate(p) \/ HandlerVariant(p)
        \/ UpdateLoad(p) \/ UpdateUpload(p) \/ UpdateBegin(p)
        \/ UpdateDeleteVariants(p) \/ UpdateCreateVariants(p) \/ UpdateCommit(p)
        \/ StartDelete(p) \/ DeleteRow(p) \/ DeleteMedia(p)
        \/ Return(p)

SpecShared == InitShared /\ [][NextShared]_vars

\* ------------------------------------------------- CategoryService.Delete
\* The category admin is one more client; its request is catReq.  One
\* category exists, and the product forms offer it.
CategoryAdmin == 3

InitCategory ==
    /\ products = {}
    /\ variants = {}
    /\ nextID = 1
    /\ media = {}
    /\ nextImg = 1
    /\ req = [p \in Procs |-> IdleReq]
    /\ active = {1, CategoryAdmin}
    /\ started = 0
    /\ categories = 1..MaxCategoryID
    /\ catReq = IdleCatReq
    /\ view = NoView

\* SELECT COUNT(*) FROM products WHERE category_id = $1
CountProducts(id) == Cardinality({ r \in products : r.categoryID = id })

FinishCategory(res) == [catReq EXCEPT !.pc = "done", !.result = res]

CategoryFrame ==
    UNCHANGED <<variants, nextID, media, nextImg, req, active, started, view>>

\* the id check and categoryRepo.FindByID
DeleteCategoryFind ==
    /\ CategoryAdmin \in active
    /\ catReq.pc = "idle"
    /\ \E id \in 0..MaxCategoryID :
         LET r == [catReq EXCEPT !.id = id]
         IN IF id <= 0
            THEN catReq' = [r EXCEPT !.pc = "done", !.result = "ErrInvalidID"]
            ELSE \/ catReq' = [r EXCEPT !.pc = "done", !.result = "ErrFetchCategory"]
                 \/ /\ id \notin categories
                    /\ catReq' = [r EXCEPT !.pc = "done", !.result = "ErrCategoryNotFound"]
                 \/ /\ id \in categories
                    /\ catReq' = [r EXCEPT !.pc = "CountProducts"]
    /\ UNCHANGED <<products, categories>>
    /\ CategoryFrame

\* categoryRepo.CountProducts and the test `count > 0`
DeleteCategoryCount ==
    /\ CategoryAdmin \in active
    /\ catReq.pc = "CountProducts"
    /\ \/ catReq' = FinishCategory("ErrCountProducts")
       \/ LET count == CountProducts(catReq.id)
          IN catReq' = IF count > 0
                       THEN [FinishCategory("ErrHasProducts") EXCEPT !.count = count]
                       ELSE [catReq EXCEPT !.pc = "DeleteCategory", !.count = count]
    /\ UNCHANGED <<products, categories>>
    /\ CategoryFrame

\* categoryRepo.Delete: DELETE FROM categories WHERE id = $1; the products
\* that reference the category get category_id NULL (ON DELETE SET NULL)
DeleteCategoryRow ==
    /\ CategoryAdmin \in active
    /\ catReq.pc = "DeleteCategory"
    /\ \/ /\ catReq' = FinishCategory("ErrDeleteCategory")
          /\ UNCHANGED <<products, categories>>
       \/ /\ catReq.id \in categories
          /\ categories' = categories \ {catReq.id}
          /\ products' = { IF r.categoryID = catReq.id
                           THEN [r EXCEPT !.categoryID = 0] ELSE r : r \in products }
          /\ catReq' = [FinishCategory("nil") EXCEPT
                          !.referenced = CountProducts(catReq.id) > 0]
    /\ CategoryFrame

NextCategory ==
    \/ Next
    \/ DeleteCategoryFind
    \/ DeleteCategoryCount
    \/ DeleteCategoryRow

SpecCategory == InitCategory /\ [][NextCategory]_vars

\* ------------------------------------------------ the catalog (read side)
\* In SpecCatalog the tables hold rows as the read side uses them: a title,
\* a code and a search query are sequences of characters, a price is a whole
\* number, category_id NULL is 0, created_at is a tick of the clock.  A Go
\* pointer filter (*int, *float64, *bool) is a record: set is FALSE for nil.
Ptr(v) == [set |-> TRUE, val |-> v]
NilPtr == [set |-> FALSE, val |-> 0]

\* bytes in ascending order (the order of ORDER BY under the C collation)
CharOrder == <<"%", "1", "2", "3", "A", "C", "_", "a", "b", "c">>
CharRank(c) == CHOOSE i \in 1..Len(CharOrder) : CharOrder[i] = c

\* strings.ToLower / the case folding of ILIKE, one character
Lower(c) == CASE c = "A" -> "a" [] c = "C" -> "c" [] OTHER -> c
LowerText(t) == [i \in 1..Len(t) |-> Lower(t[i])]

RECURSIVE TextLess(_, _)
\* a sorts before b
TextLess(a, b) ==
    IF b = <<>> THEN FALSE
    ELSE IF a = <<>> THEN TRUE
    ELSE IF Head(a) = Head(b) THEN TextLess(Tail(a), Tail(b))
    ELSE CharRank(Head(a)) < CharRank(Head(b))

RECURSIVE Like(_, _)
\* text ILIKE pattern: % stands for any run of characters, _ for any one
\* character, every other character for itself in either case
Like(pattern, text) ==
    IF pattern = <<>> THEN text = <<>>
    ELSE IF Head(pattern) = "%"
         THEN \/ Like(Tail(pattern), text)
              \/ text # <<>> /\ Like(pattern, Tail(text))
    ELSE IF Head(pattern) = "_"
         THEN text # <<>> /\ Like(Tail(pattern), Tail(text))
    ELSE /\ text # <<>>
         /\ Lower(Head(pattern)) = Lower(Head(text))
         /\ Like(Tail(pattern), Tail(text))

\* searchPattern := "%" + query + "%"; title ILIKE $1 OR code ILIKE $1
SearchMatches(query, row) ==
    LET searchPattern == <<"%">> \o query \o <<"%">>
    IN Like(searchPattern, row.title) \/ Like(searchPattern, row.code)

\* the products a catalog is populated from: what differs between them is
\* what the filters and the sort keys look at
CatalogProfiles ==
    << [title |-> <<"a", "b">>, price |-> 10, categoryID |-> 1, isSold |-> FALSE,
        createdAt |-> 1, variants |-> {[color |-> "Gold", isSale |-> FALSE]}],
       [title |-> <<"A", "b">>, price |-> 20, categoryID |-> 1, isSold |-> TRUE,
        createdAt |-> 1, variants |-> {[color |-> "Silver", isSale |-> TRUE],
                                       [color |-> "Gold", isSale |-> FALSE]}],
       [title |-> <<"b", "a">>, price |-> 10, categoryID |-> 2, isSold |-> FALSE,
        createdAt |-> 2, variants |-> {}],
       [title |-> <<"a", "b">>, price |-> 20, categoryID |-> 0, isSold |-> TRUE,
        createdAt |-> 2, variants |-> {[color |-> "Gold", isSale |-> TRUE]}] >>

CatalogRow(id, k) ==
    [id |-> id, code |-> <<"C", CharOrder[id + 1]>>, title |-> CatalogProfiles[k].title,
     price |-> CatalogProfiles[k].price, mainPhotoURL |-> 0, mainPhotoID |-> 0,
     categoryID |-> CatalogProfiles[k].categoryID,
     isSold |-> CatalogProfiles[k].isSold,
     createdAt |-> CatalogProfiles[k].createdAt]

CatalogVariantRows(id, k) ==
    { [productID |-> id, color |-> v.color, photoURL |-> 0, photoID |-> 0,
       isSale |-> v.isSale] : v \in CatalogProfiles[k].variants }

\* a populated catalog that no request is writing to; a behavior of
\* SpecCatalog is one read of it, and for GetAll the pages that follow
InitCatalog ==
    /\ \E ch \in [1..MaxCatalogProducts -> 0..Len(CatalogProfiles)] :
         /\ products = { CatalogRow(i, ch[i]) : i \in { j \in 1..MaxCatalogProducts : ch[j] # 0 } }
         /\ variants = UNION { CatalogVariantRows(i, ch[i]) :
                                 i \in { j \in 1..MaxCatalogProducts : ch[j] # 0 } }
    /\ nextID = MaxCatalogProducts + 1
    /\ media = {}
    /\ nextImg = 1
    /\ req = [p \in Procs |-> IdleReq]
    /\ active = {}
    /\ started = 0
    /\ categories = {1, 2}
    /\ catReq = IdleCatReq
    /\ view = NoView

\* ------------------------------------------- ProductRepository.FindAll
SortKeys == {"newest", "price_asc", "price_desc", "name_asc"}

\* the switch on filters.SortBy: the ORDER BY clause
OrderBy(sortBy) ==
    CASE sortBy = "price_asc" -> "base_price ASC"
      [] sortBy = "price_desc" -> "base_price DESC"
      [] sortBy = "name_asc" -> "title ASC"
      [] OTHER -> "created_at DESC"

\* row a must come before row b under the ORDER BY clause
Before(orderBy, a, b) ==
    CASE orderBy = "base_price ASC" -> a.price < b.price
      [] orderBy = "base_price DESC" -> a.price > b.price
      [] orderBy = "title ASC" -> TextLess(a.title, b.title)
      [] OTHER -> a.createdAt > b.createdAt

RECURSIVE Perms(_)
Perms(S) ==
    IF S = {} THEN {<<>>}
    ELSE UNION { { <<x>> \o s : s \in Perms(S \ {x}) } : x \in S }

\* the orders the database may return the rows of S in: rows with equal sort
\* keys come in any order, and not in the same order in every statement
Orderings(S, orderBy) ==
    { s \in Perms(S) :
        \A i, j \in 1..Len(s) : i < j => ~Before(orderBy, s[j], s[i]) }

\* fault injection for C25: sale = false is taken as "no variant on sale",
\* which a product without variants satisfies
Where_NoVariantOnSale(f, row) ==
    /\ f.categoryID.set => row.categoryID = f.categoryID.val
    /\ f.minPrice.set => row.price >= f.minPrice.val
    /\ f.maxPrice.set => row.price <= f.maxPrice.val
    /\ f.isSale.set => IF f.isSale.val
                        THEN \E v \in VariantsOf(row.id) : v.isSale
                        ELSE \A v \in VariantsOf(row.id) : ~v.isSale
    /\ f.isSold.set => row.isSold = f.isSold.val
    /\ f.searchQuery # <<>> => SearchMatches(f.searchQuery, row)

\* the WHERE clause: the conditions of the filters that are set, joined by AND
Where(f, row) ==
    /\ f.categoryID.set => row.categoryID = f.categoryID.val
    /\ f.minPrice.set => row.price >= f.minPrice.val
    /\ f.maxPrice.set => row.price <= f.maxPrice.val
    /\ f.isSale.set => \E v \in VariantsOf(row.id) : v.isSale = f.isSale.val
    /\ f.isSold.set => row.isSold = f.isSold.val
    /\ f.searchQuery # <<>> => SearchMatches(f.searchQuery, row)

ColorOrder == <<"Gold", "Silver">>
ColorRank(c) == CHOOSE i \in 1..Len(ColorOrder) : ColorOrder[i] = c

RECURSIVE SortedColors(_)
\* ORDER BY color ASC over variant rows of one product (their colors differ)
SortedColors(vs) ==
    IF vs = {} THEN <<>>
    ELSE LET m == CHOOSE v \in vs :
                    \A w \in vs : ColorRank(v.color) <= ColorRank(w.color)
         IN <<m>> \o SortedColors(vs \ {m})

\* findVariantsByProductID: the variants of the product, by color ascending
FindVariantsByProductID(id) ==
    SortedColors({ [color |-> v.color, isSale |-> v.isSale] : v \in VariantsOf(id) })

\* product.Variants: a slice (possibly empty), or nil when it was never set
Loaded(id) == [present |-> TRUE, list |-> FindVariantsByProductID(id)]
NotLoaded == [present |-> FALSE, list |-> <<>>]

\* `if filters.Page < 1`, `if filters.PageSize < 1` of FindAll
FindAllDefaults(f) ==
    [f EXCEPT !.page = IF f.page < 1 THEN 1 ELSE f.page,
              !.pageSize = IF f.pageSize < 1 THEN DefaultPageSize ELSE f.pageSize]

\* the rows the WHERE clause selects
Matching(f) == { row \in products : Where(f, row) }

\* fault injection for C22: the count query leaves out the sold condition
CountAll_NoSoldCondition(f) ==
    Cardinality(Matching([f EXCEPT !.isSold = NilPtr]))

\* SELECT COUNT(*) FROM products p WHERE ...
CountAll(f) == Cardinality(Matching(f))

\* totalPages := (total + filters.PageSize - 1) / filters.PageSize
TotalPagesOf(total, pageSize) == (total + pageSize - 1) \div pageSize

\* LIMIT pageSize OFFSET offset over the ordered rows s
LimitOffset(s, limit, offset) ==
    IF offset >= Len(s) THEN <<>>
    ELSE SubSeq(s, offset + 1, IF offset + limit < Len(s) THEN offset + limit ELSE Len(s))

\* the loop that loads the variants: the query failed for the products at
\* the positions of failed, and their Variants stay nil
AttachVariants(rows, failed) ==
    [i \in 1..Len(rows) |->
        [row |-> rows[i],
         variants |-> IF i \in failed THEN NotLoaded ELSE Loaded(rows[i].id)]]

\* ------------------------------------------------ ProductService.GetAll
\* fault injection for C24: GetAll without the upper limit of the page size
GetAllFilters_NoUpperLimit(f) ==
    [f EXCEPT !.page = IF f.page < 1 THEN 1 ELSE f.page,
              !.pageSize = IF f.pageSize < 1 THEN DefaultPageSize ELSE f.pageSize,
              !.sortBy = IF f.sortBy # "" /\ f.sortBy \notin SortKeys
                         THEN "newest" ELSE f.sortBy]

\* the pagination and sort checks of GetAll
GetAllFilters(f) ==
    [f EXCEPT !.page = IF f.page < 1 THEN 1 ELSE f.page,
              !.pageSize = IF f.pageSize < 1 THEN DefaultPageSize
                           ELSE IF f.pageSize > MaxPageSize THEN MaxPageSize
                           ELSE f.pageSize,
              !.sortBy = IF f.sortBy # "" /\ f.sortBy \notin SortKeys
                         THEN "newest" ELSE f.sortBy]

\* the filters a caller of GetAll passes: every combination of the six
\* filters with a small and a large page size, and every sort key, page
\* number and page size with and without a filter
FilterRequests ==
    [categoryID : {NilPtr, Ptr(1)},
     minPrice : {NilPtr, Ptr(20)},
     maxPrice : {NilPtr, Ptr(10)},
     isSale : {NilPtr, Ptr(TRUE), Ptr(FALSE)},
     isSold : {NilPtr, Ptr(TRUE)},
     searchQuery : {<<>>, <<"a">>},
     sortBy : {"newest"},
     page : {1},
     pageSize : {1, MaxPageSize}]

PagingRequests ==
    [categoryID : {NilPtr},
     minPrice : {NilPtr},
     maxPrice : {NilPtr},
     isSale : {NilPtr, Ptr(TRUE)},
     isSold : {NilPtr},
     searchQuery : {<<>>},
     sortBy : {"", "price_asc", "price_desc", "name_asc", "oldest"},
     page : {0, 1},
     pageSize : {0, 1, 2, MaxPageSize + 1}]

\* c.Query("page"): absent or not a number, or the number it spells
RawPages == {[numeric |-> FALSE, val |-> 0]} \cup { [numeric |-> TRUE, val |-> n] : n \in {0 - 1, 0, 1, 2} }
RawSorts == {"", "newest", "name_asc", "oldest"}

\* parseFilters: the page, the sort key, the fixed page size
ParseFilters(rawPage, rawSort) ==
    [categoryID |-> NilPtr, minPrice |-> NilPtr, maxPrice |-> NilPtr,
     isSale |-> NilPtr, isSold |-> NilPtr, searchQuery |-> <<>>,
     sortBy |-> IF rawSort \in SortKeys THEN rawSort ELSE "newest",
     page |-> IF rawPage.numeric /\ rawPage.val > 0 THEN rawPage.val ELSE 1,
     pageSize |-> DefaultPageSize]

NoRaw == [numeric |-> FALSE, val |-> 0]
NoPrev == [known |-> FALSE, ids |-> {}]

\* the answer of GetAll to the request f as the read side records it
GetAllView(via, raw, f, g, res, items, total, prev) ==
    [op |-> "getAll", via |-> via, raw |-> raw, request |-> f, filters |-> g,
     result |-> res, products |-> items, total |-> total,
     page |-> g.page, pageSize |-> g.pageSize,
     totalPages |-> TotalPagesOf(total, g.pageSize), prev |-> prev,
     queried |-> TRUE]

\* GetAll and FindAll for the request f: the count, the page, the variants
GetAllAnswers(via, raw, f, prev) ==
    LET g == FindAllDefaults(GetAllFilters(f))
        failedView == GetAllView(via, raw, f, g, "ErrFetch", <<>>, 0, NoPrev)
    IN {failedView} \cup
       { GetAllView(via, raw, f, g, "nil",
                    AttachVariants(LimitOffset(s, g.pageSize, (g.page - 1) * g.pageSize), failed),
                    CountAll(g), prev) :
           s \in Orderings(Matching(g), OrderBy(g.sortBy)),
           failed \in {{}} \cup { {i} : i \in 1..MaxCatalogProducts } }

CatalogFrame ==
    UNCHANGED <<products, variants, nextID, media, nextImg, req, active, started,
                categories, catReq>>

\* a caller of the service asks for a first page
GetAll ==
    /\ view = NoView
    /\ \E f \in FilterRequests \cup PagingRequests : view' \in GetAllAnswers("service", NoRaw, f, NoPrev)
    /\ CatalogFrame

\* PublicHandler: parseFilters, then GetAll
FilterProducts ==
    /\ view = NoView
    /\ \E rawPage \in RawPages, rawSort \in RawSorts :
         view' \in GetAllAnswers("handler", rawPage, ParseFilters(rawPage, rawSort), NoPrev)
    /\ CatalogFrame

\* the caller asks for the page after the one it was answered, same filters
GetNextPage ==
    /\ view.op = "getAll"
    /\ view.result = "nil"
    /\ view.page < MaxPage
    /\ view' \in GetAllAnswers(view.via,
                              IF view.via = "handler"
                              THEN [numeric |-> TRUE, val |-> view.page + 1] ELSE NoRaw,
                              [view.filters EXCEPT !.page = view.page + 1],
                              [known |-> TRUE, ids |-> { view.products[i].row.id :
                                                          i \in DOMAIN view.products }])
    /\ CatalogFrame

\* ------------------------------------------------- ProductService.Search
SearchQueries == {<<>>, <<"a">>, <<"A", "B">>, <<"c", "2">>, <<"_">>, <<"%">>}

SearchView(query, res, rows, queried) ==
    [op |-> "search", query |-> query, result |-> res,
     products |-> [i \in 1..Len(rows) |-> [row |-> rows[i], variants |-> NotLoaded]],
     queried |-> queried]

\* Search of the service and of the repository: nothing for the empty query,
\* else the first SearchLimit rows that match, by title ascending
SearchAnswers(query) ==
    IF query = <<>>
    THEN { SearchView(query, "nil", <<>>, FALSE) }
    ELSE { SearchView(query, "ErrSearch", <<>>, TRUE) } \cup
         { SearchView(query, "nil", LimitOffset(s, SearchLimit, 0), TRUE) :
             s \in Orderings({ row \in products : SearchMatches(query, row) }, "title ASC") }

Search ==
    /\ view = NoView
    /\ \E query \in SearchQueries : view' \in SearchAnswers(query)
    /\ CatalogFrame

\* --------------------------------------- ProductService.GetByID (catalog)
\* the id check, then FindByID: the row and its variants, or an error
GetByIDAnswers(id) ==
    LET failed(res) == [op |-> "getByID", id |-> id, result |-> res,
                        products |-> <<>>, queried |-> id > 0]
    IN IF id <= 0 THEN { failed("ErrInvalidID") }
       ELSE { failed("ErrFetch") } \cup
            { [op |-> "getByID", id |-> id, result |-> "nil",
               products |-> <<[row |-> r, variants |-> Loaded(id)]>>,
               queried |-> TRUE] : r \in { x \in products : x.id = id } }

\* fault injection for C29: the read marks the product it fetched as sold
ReadByID_MarksSold ==
    /\ view = NoView
    /\ \E id \in 0..MaxCatalogProducts :
         /\ view' \in GetByIDAnswers(id)
         /\ products' = { IF r.id = id THEN [r EXCEPT !.isSold = TRUE] ELSE r : r \in products }
    /\ UNCHANGED <<variants, nextID, media, nextImg, req, active, started,
                   categories, catReq>>

ReadByID ==
    /\ view = NoView
    /\ \E id \in 0..MaxCatalogProducts : view' \in GetByIDAnswers(id)
    /\ CatalogFrame

NextCatalog ==
    \/ GetAll
    \/ FilterProducts
    \/ GetNextPage
    \/ Search
    \/ ReadByID

SpecCatalog == InitCatalog /\ [][NextCatalog]_vars

\* ------------------------------------------------------- utils.GenerateSlug
\* A category name is a sequence of characters over a small alphabet: an
\* upper-case letter, a lower-case letter, a digit, the hyphen, a space and
\* a special character.
NameChars == {"A", "b", "1", "-", " ", "&"}
AlphaNumeric == {"a", "b", "c", "1", "2", "3"}

RECURSIVE NamesOfLen(_)
NamesOfLen(n) ==
    IF n = 0 THEN {<<>>}
    ELSE { Append(s, c) : s \in NamesOfLen(n - 1), c \in NameChars }

Names == UNION { NamesOfLen(n) : n \in 0..MaxNameLen }

\* the characters the class [^a-z0-9-] matches
NotSlugChar == (NameChars \cup AlphaNumeric) \ (AlphaNumeric \cup {"-"})

RECURSIVE SkipRun(_, _)
\* s without the run of characters of cls it starts with
SkipRun(s, cls) ==
    IF s # <<>> /\ Head(s) \in cls THEN SkipRun(Tail(s), cls) ELSE s

RECURSIVE ReplaceAllString(_, _)
\* regexp `[cls]+`, ReplaceAllString(s, "-"): every maximal run of
\* characters of cls becomes one hyphen
ReplaceAllString(s, cls) ==
    IF s = <<>> THEN <<>>
    ELSE IF Head(s) \in cls
         THEN <<"-">> \o ReplaceAllString(SkipRun(s, cls), cls)
         ELSE <<Head(s)>> \o ReplaceAllString(Tail(s), cls)

RECURSIVE TrimRight(_, _)
TrimRight(s, cls) ==
    IF s # <<>> /\ s[Len(s)] \in cls THEN TrimRight(SubSeq(s, 1, Len(s) - 1), cls)
    ELSE s

\* strings.Trim(s, cutset)
Trim(s, cls) == TrimRight(SkipRun(s, cls), cls)

\* fault injection for C38: the pass over runs of hyphens comes first
GenerateSlug_CollapseFirst(name) ==
    Trim(ReplaceAllString(ReplaceAllString(LowerText(name), {"-"}), NotSlugChar),
         {"-"})

\* fault injection for C28: the slug without the pass over runs of hyphens
GenerateSlug_NoCollapse(name) ==
    Trim(ReplaceAllString(LowerText(name), NotSlugChar), {"-"})

\* strings.ToLower, the class [^a-z0-9-]+ to "-", -+ to "-", strings.Trim
GenerateSlug(name) ==
    Trim(ReplaceAllString(ReplaceAllString(LowerText(name), NotSlugChar), {"-"}),
         {"-"})

\* a name whose slug has not yet been asked for
InitSlug ==
    /\ products = {}
    /\ variants = {}
    /\ nextID = 1
    /\ media = {}
    /\ nextImg = 1
    /\ req = [p \in Procs |-> IdleReq]
    /\ active = {}
    /\ started = 0
    /\ categories = {}
    /\ catReq = IdleCatReq
    /\ view \in { [op |-> "name", name |-> n] : n \in Names }

\* slug := utils.GenerateSlug(name)
Slugify ==
    /\ view.op = "name"
    /\ view' = [op |-> "slug", name |-> view.name, slug |-> GenerateSlug(view.name)]
    /\ CatalogFrame

\* the slug is given as a name: utils.GenerateSlug(slug)
Reslug ==
    /\ view.op = "slug"
    /\ view' = [op |-> "reslug", name |-> view.name, slug |-> view.slug,
                again |-> GenerateSlug(view.slug)]
    /\ CatalogFrame

NextSlug == Slugify \/ Reslug

SpecSlug == InitSlug /\ [][NextSlug]_vars

\* --------------------------------- CloudinaryService.UploadProductImage
MaxFileSize == 5 * 1024 * 1024

\* a byte stream: the format its leading bytes spell, and its length; a
\* stream is at least as long as the signature of its format
Files ==
    { f \in [magic : {"JPEG", "PNG", "WEBP", "GIF", "TEXT", "none"},
             size : {0, 1, 14, MaxFileSize - 1, MaxFileSize, MaxFileSize + 1}] :
        CASE f.magic = "none" -> f.size = 0
          [] f.magic = "TEXT" -> f.size >= 1
          [] OTHER -> f.size >= 14 }

\* http.DetectContentType on the first 512 bytes
DetectContentType(f) ==
    CASE f.magic = "JPEG" -> "image/jpeg"
      [] f.magic = "PNG" -> "image/png"
      [] f.magic = "WEBP" -> "image/webp"
      [] f.magic = "GIF" -> "image/gif"
      [] OTHER -> "text/plain; charset=utf-8"

ValidateFileContent(f) ==
    IF f.size = 0 THEN "ErrEmpty"
    ELSE IF DetectContentType(f) \notin {"image/jpeg", "image/png", "image/webp"}
         THEN "ErrInvalidType"
    ELSE "nil"

\* fault injection for C31: a stream of exactly MaxFileSize bytes is rejected
CheckFile_RejectsCap(f) ==
    IF f.size = 0 THEN "ErrEmpty"
    ELSE IF ValidateFileContent(f) # "nil" THEN ValidateFileContent(f)
    ELSE IF f.size >= MaxFileSize THEN "ErrSize"
    ELSE "nil"

\* UploadProductImage before the call of the store: the empty stream, the
\* content type, the size
CheckFile(f) ==
    IF f.size = 0 THEN "ErrEmpty"
    ELSE IF ValidateFileContent(f) # "nil" THEN ValidateFileContent(f)
    ELSE IF f.size > MaxFileSize THEN "ErrSize"
    ELSE "nil"

\* a stream that UploadProductImage has not yet been called with
InitUpload ==
    /\ products = {}
    /\ variants = {}
    /\ nextID = 1
    /\ media = {}
    /\ nextImg = 1
    /\ req = [p \in Procs |-> IdleReq]
    /\ active = {}
    /\ started = 0
    /\ categories = {}
    /\ catReq = IdleCatReq
    /\ view \in { [op |-> "file", file |-> f] : f \in Files }

\* UploadProductImage(ctx, file, filename): the checks, then the call of
\* the store and the reading of its answer.  The store answers with an
\* error (having stored nothing), with a response for the image it stored,
\* or with neither a response nor an error, in which case the read of
\* resp.PublicID for the log line panics.
StoreImage ==
    /\ view.op = "file"
    /\ LET noResp == [publicID |-> 0, secureURL |-> 0, url |-> 0]
           answer(sent, resp, res, outcome) ==
               [op |-> "upload", file |-> view.file, sent |-> sent, resp |-> resp,
                result |-> res, outcome |-> outcome]
       IN IF CheckFile(view.file) # "nil"
          THEN /\ view' = answer(FALSE, noResp, UploadError, CheckFile(view.file))
               /\ UNCHANGED <<media, nextImg>>
          ELSE \/ /\ view' \in { answer(TRUE, noResp, UploadError, o) :
                                    o \in {"ErrUpload", "panic"} }
                  /\ UNCHANGED <<media, nextImg>>
               \/ \E h \in 1..MaxImages :
                    /\ Uploaded(h)
                    /\ \E resp \in UploadResponses(h) :
                         LET res == UploadProductImage(resp)
                         IN view' = answer(TRUE, resp, res,
                                           IF res.err THEN "ErrEmptyResponse" ELSE "nil")
    /\ UNCHANGED <<products, variants, nextID, req, active, started, categories, catReq>>

SpecUpload == InitUpload /\ [][StoreImage]_vars

\* ------------------------------------------------------------------ claims
Returned(p, op) == req[p].pc = "done" /\ req[p].op = op
Succeeded(p, op) == Returned(p, op) /\ req[p].result = "nil"
Failed(p, op) == Returned(p, op) /\ req[p].result # "nil"

PersistedColors(id) == { v.color : v \in VariantsOf(id) }

\* C1: when Create has returned, with success or with any error, either the
\* product row and a variant row for every submitted variant are persisted, or
\* no product row created by this request is persisted.
C1_CreateAllOrNothing ==
    \A p \in Procs :
        Returned(p, "create") =>
            \/ RowOf(req[p].id) = NoRow
            \/ \A i \in 1..Len(req[p].variants) :
                 \E v \in VariantsOf(req[p].id) : AsVariant(v) = req[p].variants[i]

\* C2: when Create has returned an error, no variant row references the failed
\* product and a delete was issued for every image the request uploaded (the
\* main image and every per-variant image).
C2_CreateErrorLeavesNoImage ==
    \A p \in Procs :
        Failed(p, "create") =>
            /\ req[p].id # 0 => VariantsOf(req[p].id) = {}
            /\ req[p].uploaded \subseteq req[p].delIssued

\* C3: when Update has returned an error, the persisted aggregate is what it
\* was before the call: the product row, the variant rows, and the presence in
\* the media store of every image they reference.
C3_UpdateErrorChangesNothing ==
    \A p \in Procs :
        Failed(p, "update") => Aggregate(req[p].id) = req[p].before

\* C4: in Update a delete of an old variant image has been issued only if the
\* variant-replacement transaction has committed.
C4_OldImageDeletedOnlyAfterCommit ==
    \A p \in Procs :
        (/\ req[p].op = "update"
         /\ req[p].delIssued \cap { v.photoID : v \in req[p].existing.variants } # {})
            => req[p].committed

\* C5: after a successful Update through the form, every existing variant whose
\* color was resubmitted without image bytes is persisted with its prior URL
\* and handle, and its image is still in the media store.
C5_ResubmittedPhotoPreserved ==
    \A p \in Procs :
        (Succeeded(p, "update") /\ req[p].via = "handler") =>
            \A old \in req[p].before.variants :
                old.color \in req[p].noBytes =>
                    /\ \E v \in VariantsOf(req[p].id) : AsVariant(v) = old
                    /\ old.photoID \in req[p].before.images => old.photoID \in media

\* C6: after a successful Update the colors of the product's persisted variant
\* rows are exactly the non-empty colors submitted.
C6_VariantSetEqualsSubmitted ==
    \A p \in Procs :
        Succeeded(p, "update") => PersistedColors(req[p].id) = req[p].colors

C6_Witness ==
    \E p \in Procs :
        /\ Succeeded(p, "update")
        /\ req[p].colors # {}
        /\ { v.color : v \in req[p].before.variants } \ req[p].colors # {}

C8_ValidationBeforeSideEffects ==
    \A p \in Procs :
        (/\ req[p].pc = "done"
         /\ req[p].op \in {"create", "update"}
         /\ req[p].result \in ValidationErrors \cup {"ErrVariantColor"})
            => /\ req[p].uploaded = {}
               /\ req[p].delIssued = {}
               /\ ~req[p].wrote

\* C9: a Create of a valid product whose business code belongs to a persisted
\* product returns an error, adds no product row, and leaves no image of this
\* request in the media store.
C9_DuplicateCodeLeavesNothing ==
    \A p \in Procs :
        (/\ Returned(p, "create")
         /\ ValidateProduct(req[p].cand) = "nil"
         /\ req[p].codeTaken)
            => /\ req[p].result # "nil"
               /\ req[p].id = 0
               /\ req[p].uploaded \cap media = {}

\* C10: when the main-image upload of Create has failed, Create has returned
\* an error without a relational write, and no product row has the submitted
\* business code.
C10_UploadFailureNoRowWithCode ==
    \A p \in Procs :
        (req[p].op = "create" /\ req[p].uploadFailed) =>
            /\ Failed(p, "create")
            /\ ~req[p].wrote
            /\ \A q \in products : q.code # req[p].cand.code

\* C11: after a successful Create exactly one product row has the submitted
\* business code, it is the row this request created, and the product has
\* exactly one variant row for every non-empty submitted color and no other.
C11_CreateExactlyOneRowPerColor ==
    \A p \in Procs :
        Succeeded(p, "create") =>
            /\ { q \in products : q.code = req[p].cand.code } = {RowOf(req[p].id)}
            /\ RowOf(req[p].id) # NoRow
            /\ PersistedColors(req[p].id) = req[p].colors
            /\ Cardinality(VariantsOf(req[p].id)) = Cardinality(req[p].colors)

C11_Witness ==
    \E p \in Procs :
        /\ Succeeded(p, "create")
        /\ Cardinality(req[p].colors) > 1
        /\ Cardinality(products) > 1

\* the positions of vs that repeat the color of an earlier position
LaterOccurrences(vs) ==
    { j \in 1..Len(vs) : \E i \in 1..(j - 1) : vs[i].color = vs[j].color }

\* C12: when a Create or Update submission repeats a color, the insert of the
\* later occurrence is not rejected, and once the operation has succeeded the
\* product has exactly one variant row of that color, carrying the values of
\* the last occurrence.
C12_RepeatedColorLastWins ==
    \A p \in Procs :
        req[p].op \in {"create", "update"} =>
            \A j \in LaterOccurrences(req[p].variants) :
                /\ req[p].failedAt # j
                /\ Succeeded(p, req[p].op) =>
                      \A v \in VariantsOf(req[p].id) :
                          v.color = req[p].variants[j].color =>
                              \E k \in j..Len(req[p].variants) :
                                  AsVariant(v) = req[p].variants[k]

\* C13: when Update has returned because its variant transaction failed (at
\* begin, at the delete of the prior variant rows, at the insert of the new
\* ones or at commit), a delete has been issued for the main image this Update
\* uploaded.
C13_UpdateFailureDeletesNewMainImage ==
    \A p \in Procs :
        (/\ Failed(p, "update")
         /\ req[p].result \in {"ErrBegin", "ErrDeleteVariants", "ErrCreateVariants",
                               "ErrCommit"})
            => NewMainHandles(req[p]) \subseteq req[p].delIssued

\* C14: when the upload of the replacement main image has failed in Update,
\* Update has returned an error, no relational write was attempted, the rows
\* of the product are what they were, no delete was issued for the old main
\* image and that image is still in the media store if it was there.
C14_UpdateUploadFailureKeepsOldImage ==
    \A p \in Procs :
        (req[p].op = "update" /\ req[p].uploadFailed) =>
            /\ Failed(p, "update")
            /\ ~req[p].wrote
            /\ RowOf(req[p].id) = req[p].before.row
            /\ { AsVariant(v) : v \in VariantsOf(req[p].id) } = req[p].before.variants
            /\ req[p].before.row.mainPhotoID \notin req[p].delIssued
            /\ req[p].before.row.mainPhotoID \in req[p].before.images
                  => req[p].before.row.mainPhotoID \in media

C14_Witness ==
    \E p \in Procs :
        /\ req[p].op = "update" /\ req[p].uploadFailed
        /\ req[p].before.row.mainPhotoID \in req[p].before.images

\* C15: when Delete has returned an error (the product could not be loaded or
\* the row deletion failed), the product row, its variant rows and the images
\* they reference are what they were, and no media delete has been issued.
C15_DeleteErrorDeletesNothing ==
    \A p \in Procs :
        Failed(p, "delete") =>
            /\ Aggregate(req[p].id) = req[p].before
            /\ req[p].delIssued = {}

C15_Witness ==
    \E p \in Procs :
        /\ Failed(p, "delete")
        /\ req[p].result = "ErrDeleteProduct"
        /\ req[p].before.images # {}
        /\ req[p].before.variants # {}

\* the image handles the rows of an aggregate name, in the store or not
HandlesOf(agg) ==
    ({agg.row.mainPhotoID} \cup { v.photoID : v \in agg.variants }) \ {0}

\* C16: once Delete has removed the product row, the product's variant rows
\* are gone and Delete returns success whatever the media deletes return; it
\* has then issued deletes for exactly the non-empty main and variant image
\* handles, one call for each, none repeated.
C16_DeleteSucceedsOnceRowGone ==
    \A p \in Procs :
        (/\ req[p].op = "delete"
         /\ req[p].pc \in {"DeleteMedia", "done"}
         /\ req[p].before.row # NoRow
         /\ RowOf(req[p].id) = NoRow)
            => /\ VariantsOf(req[p].id) = {}
               /\ req[p].pc = "done" =>
                     /\ req[p].result = "nil"
                     /\ req[p].delIssued = HandlesOf(req[p].before)
                     /\ req[p].deleteCalls =
                           Cardinality({ f \in {"main"} : req[p].before.row.mainPhotoID # 0 })
                             + Cardinality({ v \in req[p].before.variants : v.photoID # 0 })

C16_Witness ==
    \E p \in Procs :
        /\ Succeeded(p, "delete")
        /\ req[p].before.row.mainPhotoID \in media
        /\ \E v \in req[p].before.variants : v.photoID # 0 /\ v.photoID \notin media

\* C17: an Update or Delete of a product id that is not positive or names no
\* product returns an error, and has attempted no relational write and issued
\* no media upload or delete.
C17_UnknownIdNoSideEffects ==
    \A p \in Procs :
        (/\ req[p].pc = "done"
         /\ req[p].op \in {"update", "delete"}
         /\ (req[p].id <= 0 \/ req[p].before.row = NoRow))
            => /\ req[p].result # "nil"
               /\ ~req[p].wrote
               /\ req[p].uploaded = {}
               /\ req[p].delIssued = {}

C17_Witness ==
    \E p \in Procs :
        /\ req[p].pc = "done"
        /\ req[p].op = "update"
        /\ req[p].via = "handler"
        /\ req[p].id > 0
        /\ req[p].before.row = NoRow
        /\ products # {}

BothOrNeither(url, id) == (url = 0) <=> (id = 0)

\* C18: in every reachable state each persisted product has its main image
\* URL and its deletion handle both empty or both non-empty, and so has each
\* persisted variant its image URL and deletion handle.
C18_ImageFieldsBothOrNeither ==
    /\ \A q \in products : BothOrNeither(q.mainPhotoURL, q.mainPhotoID)
    /\ \A v \in variants : BothOrNeither(v.photoURL, v.photoID)

C18_Witness ==
    /\ \E q \in products : q.mainPhotoID # 0
    /\ \E v \in variants : v.photoID # 0
    /\ \E v \in variants : v.photoID = 0
    /\ \E p \in Procs : Failed(p, "update")

\* C19: when two Create requests with the same code run concurrently and both
\* pass the uniqueness pre-check, at most one product row with that code is
\* persisted, and the request whose insert is rejected has issued a delete
\* for the main image it uploaded.
C19_ConcurrentCreateOneRowPerCode ==
    /\ \A q1, q2 \in products : q1.code = q2.code => q1 = q2
    /\ \A p \in Procs :
          (/\ Returned(p, "create")
           /\ req[p].result = "ErrCreateProduct")
              => MainPhotoHandles(req[p]) \subseteq req[p].delIssued

\* both requests found no row with the code, q inserted its row, p's insert
\* was rejected after p had uploaded its main image
C19_Witness ==
    \E p, q \in Procs :
        /\ p # q
        /\ Returned(p, "create")
        /\ req[p].result = "ErrCreateProduct"
        /\ req[p].insertRejected
        /\ ~req[p].codeTaken
        /\ MainPhotoHandles(req[p]) # {}
        /\ req[q].op = "create"
        /\ ~req[q].codeTaken
        /\ req[q].id # 0
        /\ RowOf(req[q].id) # NoRow
        /\ RowOf(req[q].id).code = req[p].cand.code

InFlight(p) == req[p].pc \notin {"idle", "done"}

InVariantWindow(p) ==
    /\ req[p].op = "create"
    /\ req[p].pc \in {"CreateVariants", "CreateUndo", "CreateCommit"}
    /\ Len(req[p].variants) > 0

\* C21: while a Create that submits at least one variant is between its
\* product insert and the end of its variant transaction, a reader that has
\* fetched the product has seen the product row and none of its variants.
C21_ReaderSeesProductWithoutVariants ==
    \A p, q \in Procs :
        (/\ InVariantWindow(p)
         /\ Succeeded(q, "getByID")
         /\ req[q].id = req[p].id)
            => /\ req[q].existing.row # NoRow
               /\ req[q].existing.row.id = req[p].id
               /\ req[q].existing.variants = {}

\* the variants are inserted in the open transaction and the reader has
\* returned the product with an empty variant list
C21_Witness ==
    \E p, q \in Procs :
        /\ InVariantWindow(p)
        /\ req[p].pc = "CreateCommit"
        /\ Len(req[p].tx.inserted) > 0
        /\ Succeeded(q, "getByID")
        /\ req[q].id = req[p].id
        /\ req[q].existing.row # NoRow
        /\ req[q].existing.variants = {}

\* ---------------------------------------------------- claims: read side
Answered(op) == view.op = op /\ view.result = "nil"
ReturnedRows == { view.products[i].row : i \in DOMAIN view.products }
ReturnedIDs == { r.id : r \in ReturnedRows }

\* the filters a request supplies, and what each asks of a product
SuppliedFilters(f) ==
    { k \in {"category", "min", "max", "sale", "sold", "search"} :
        CASE k = "category" -> f.categoryID.set
          [] k = "min" -> f.minPrice.set
          [] k = "max" -> f.maxPrice.set
          [] k = "sale" -> f.isSale.set
          [] k = "sold" -> f.isSold.set
          [] OTHER -> f.searchQuery # <<>> }

FilterHolds(k, f, row) ==
    CASE k = "category" -> row.categoryID = f.categoryID.val
      [] k = "min" -> row.price >= f.minPrice.val
      [] k = "max" -> row.price <= f.maxPrice.val
      [] k = "sale" -> \E v \in variants : v.productID = row.id /\ v.isSale = f.isSale.val
      [] k = "sold" -> row.isSold = f.isSold.val
      [] OTHER -> SearchMatches(f.searchQuery, row)

Satisfying(f, ks) == { row \in products : \A k \in ks : FilterHolds(k, f, row) }

\* the page holds every row: it is the first page and no smaller than the table
WholeResult == view.page = 1 /\ view.pageSize >= Cardinality(products)

\* C22: for every combination of the category, minimum price, maximum price,
\* sale, sold and search filters, GetAll returns the products that satisfy
\* all supplied filters, and Total is the number of products that satisfy
\* the predicates the page was fetched with.
C22_FiltersComposeAndTotalAgrees ==
    Answered("getAll") =>
        LET S == Satisfying(view.request, SuppliedFilters(view.request))
        IN /\ view.total = Cardinality(S)
           /\ ReturnedRows \subseteq S
           /\ WholeResult => ReturnedRows = S

C22_Witness ==
    /\ Answered("getAll")
    /\ Cardinality(SuppliedFilters(view.request)) >= 3
    /\ view.total >= 1
    /\ view.total < Cardinality(products)
    /\ \E k \in SuppliedFilters(view.request) :
         Cardinality(Satisfying(view.request, SuppliedFilters(view.request) \ {k})) > view.total

\* the least n with n * s >= t
Ceil(t, s) == CHOOSE n \in 0..t : n * s >= t /\ (n = 0 \/ (n - 1) * s < t)

\* C23: GetAll for page p and page size s returns the rows at positions
\* [(p-1)*s, p*s) of the filtered result in the selected order, so the page
\* after a page shares no product with it, also when products share a sort
\* key value; TotalPages is ceil(Total / s).
C23_PagesPartitionFilteredResult ==
    Answered("getAll") =>
        LET offset == (view.page - 1) * view.pageSize
            rest == IF view.total > offset THEN view.total - offset ELSE 0
        IN /\ view.totalPages = Ceil(view.total, view.pageSize)
           /\ Len(view.products) = (IF rest < view.pageSize THEN rest ELSE view.pageSize)
           /\ \A i, j \in DOMAIN view.products :
                i < j => ~Before(OrderBy(view.filters.sortBy),
                                 view.products[j].row, view.products[i].row)
           /\ view.prev.known => ReturnedIDs \cap view.prev.ids = {}

\* C24: GetAll uses a page number of at least 1 and a page size within
\* 1..100: a size above 100 becomes 100, a size below 1 becomes 20, a page
\* below 1 (or not a number) becomes 1, an unrecognised sort key newest-first.
C24_PaginationInputsNormalised ==
    view.op = "getAll" =>
        /\ view.page >= 1
        /\ view.pageSize \in 1..MaxPageSize
        /\ view.request.pageSize > MaxPageSize => view.pageSize = MaxPageSize
        /\ view.request.pageSize < 1 => view.pageSize = DefaultPageSize
        /\ view.request.pageSize \in 1..MaxPageSize => view.pageSize = view.request.pageSize
        /\ view.request.page < 1 => view.page = 1
        /\ view.request.page >= 1 => view.page = view.request.page
        /\ (view.via = "handler" /\ ~(view.raw.numeric /\ view.raw.val > 0)) => view.page = 1
        /\ view.request.sortBy \notin SortKeys =>
             \A i, j \in DOMAIN view.products :
                i < j => view.products[i].row.createdAt >= view.products[j].row.createdAt

C24_Witness ==
    /\ Answered("getAll")
    /\ view.request.pageSize > MaxPageSize
    /\ view.request.page < 1
    /\ view.request.sortBy = "oldest"
    /\ Len(view.products) >= 2
    /\ view.products[1].row.createdAt > view.products[2].row.createdAt

\* C25: with the sale filter set to v, GetAll returns a product if and only
\* if it satisfies the other filters and has a variant whose is_sale is v; a
\* product without variants is returned for neither value, whatever is_sold.
C25_SaleFilterAnyVariant ==
    (Answered("getAll") /\ view.request.isSale.set) =>
        LET others == Satisfying(view.request, SuppliedFilters(view.request) \ {"sale"})
            S == { row \in others :
                     \E v \in variants : /\ v.productID = row.id
                                         /\ v.isSale = view.request.isSale.val }
        IN /\ ReturnedRows \subseteq S
           /\ view.total = Cardinality(S)
           /\ WholeResult => ReturnedRows = S
           /\ \A row \in ReturnedRows : VariantsOf(row.id) # {}

C25_Witness ==
    /\ Answered("getAll")
    /\ view.request.isSale.set
    /\ ~view.request.isSale.val
    /\ ~view.request.isSold.set
    /\ WholeResult
    /\ \E row \in products : VariantsOf(row.id) = {} /\ row \notin ReturnedRows
    /\ \E a, b \in ReturnedRows : a.isSold /\ ~b.isSold

\* C26: every product in a result that GetAll or GetByID returned without an
\* error carries a variant list that is present and holds all variants of
\* the product by color ascending (the empty list when it has none).
C26_VariantListPresentAndOrdered ==
    (Answered("getAll") \/ Answered("getByID")) =>
        \A i \in DOMAIN view.products :
            /\ view.products[i].variants.present
            /\ view.products[i].variants.list
                 = FindVariantsByProductID(view.products[i].row.id)

\* C29: a step of GetByID, GetAll or Search changes no product, variant or
\* category row and no image of the media store.
C29_ReadsChangeNothing ==
    [][view' # view => UNCHANGED <<products, variants, categories, media>>]_vars

C29_Witness ==
    /\ products # {}
    /\ variants # {}
    /\ view.op \in {"getByID", "getAll", "search"}
    /\ view.result = "nil"
    /\ view.products # <<>>

\* the query is a substring of the text, letter case aside
ContainsFold(query, text) ==
    \E i \in 1..(Len(text) - Len(query) + 1) :
        LowerText(SubSeq(text, i, i + Len(query) - 1)) = LowerText(query)

\* C30: Search with a non-empty query returns at most 50 products, each of
\* which has the query as a case-insensitive substring of its title or code,
\* by title ascending; Search with the empty query returns nothing and does
\* not query the store.
C30_SearchReturnsSubstringMatches ==
    Answered("search") =>
        IF view.query = <<>>
        THEN view.products = <<>> /\ ~view.queried
        ELSE /\ Len(view.products) <= SearchLimit
             /\ \A row \in ReturnedRows :
                  ContainsFold(view.query, row.title) \/ ContainsFold(view.query, row.code)
             /\ \A i, j \in DOMAIN view.products :
                  i < j => ~TextLess(view.products[j].row.title, view.products[i].row.title)

\* C27: Category Delete succeeds only for a category no product references:
\* a step that removes a category finds no product row referencing it,
\* however product Create/Update requests interleave with it, and a delete
\* that is rejected changes no category and no product.
C27_CategoryRemovedOnlyWhenUnreferenced ==
    [][/\ \A c \in categories \ categories' :
             \A r \in products : r.categoryID # c
       /\ (catReq.pc # "done" /\ catReq'.pc = "done" /\ catReq'.result # "nil")
             => UNCHANGED <<products, variants, categories>>]_vars

RECURSIVE Words(_, _)
\* the maximal runs of letters and digits of s, in order (cur is the run
\* being read)
Words(s, cur) ==
    LET done == IF cur = <<>> THEN <<>> ELSE <<cur>>
    IN IF s = <<>> THEN done
       ELSE IF Head(s) \in AlphaNumeric THEN Words(Tail(s), Append(cur, Head(s)))
       ELSE done \o Words(Tail(s), <<>>)

RECURSIVE JoinHyphen(_)
JoinHyphen(ws) ==
    IF ws = <<>> THEN <<>>
    ELSE IF Len(ws) = 1 THEN ws[1]
    ELSE ws[1] \o <<"-">> \o JoinHyphen(Tail(ws))

\* C28: GenerateSlug(name) is the lowercase form of name with every maximal
\* run of characters outside a-z and 0-9 replaced by one hyphen and the
\* hyphens at both ends removed; so a slug holds only a-z, 0-9 and hyphens,
\* does not start or end with a hyphen and has no two hyphens in a row.
C28_SlugIsHyphenJoinedWords ==
    view.op = "slug" =>
        /\ view.slug = JoinHyphen(Words(LowerText(view.name), <<>>))
        /\ \A i \in DOMAIN view.slug : view.slug[i] \in AlphaNumeric \cup {"-"}
        /\ view.slug # <<>> => view.slug[1] # "-" /\ view.slug[Len(view.slug)] # "-"
        /\ \A i \in 1..(Len(view.slug) - 1) : ~(view.slug[i] = "-" /\ view.slug[i + 1] = "-")

C28_Witness ==
    /\ view.op = "slug"
    /\ Len(view.name) >= 5
    /\ view.name[1] = " "
    /\ \E i \in 1..(Len(view.name) - 1) : view.name[i] = "-" /\ view.name[i + 1] = "&"
    /\ \E i \in DOMAIN view.name : view.name[i] = "A"
    /\ view.slug = <<"a", "-", "b">>

\* C38: GenerateSlug is idempotent: the slug of a slug is that slug.
C38_SlugOfSlugIsSlug ==
    view.op = "reslug" => view.again = view.slug

C38_Witness ==
    /\ view.op = "reslug"
    /\ view.slug = <<"b", "-", "1", "-", "a">>
    /\ view.name # view.slug
    /\ view.again = view.slug

\* C31: the upload rejects, without sending anything to the store, a stream
\* that is empty, whose format is not JPEG, PNG or WebP, or that is larger
\* than 5 MiB (a stream of exactly 5 MiB being sent); and when the upload
\* returns success the URL and the deletion handle are both non-empty.
C31_UploadRejectsInvalidStreams ==
    view.op = "upload" =>
        /\ (\/ view.file.size = 0
            \/ view.file.magic \notin {"JPEG", "PNG", "WEBP"}
            \/ view.file.size > 5 * 1024 * 1024)
             => (view.outcome # "nil" /\ ~view.sent /\ media = {})
        /\ (view.file.size = 5 * 1024 * 1024 /\ view.file.magic \in {"JPEG", "PNG", "WEBP"})
             => view.sent
        /\ view.outcome = "nil" => (view.result.url # 0 /\ view.result.id # 0)

C31_Witness ==
    /\ view.op = "upload"
    /\ view.file.size = 5 * 1024 * 1024
    /\ view.file.magic = "WEBP"
    /\ view.sent
    /\ view.outcome = "nil"
    /\ view.result.id \in media

\* C37: a successful admin product update changes is_sold only as the
\* submission requests: afterwards the product is sold exactly when the form
\* submitted is_sold as set, so a sold product submitted as sold stays sold.
C37_UpdateKeepsRequestedIsSold ==
    \A p \in Procs :
        (Succeeded(p, "update") /\ req[p].via = "handler")
            => RowOf(req[p].id).isSold = (req[p].isSoldRaw \in {"on", "true"})

\* C36: a failed per-variant image upload does not fail the enclosing Create
\* or Update: the request goes on to the service, an upload error it returns
\* is that of the main photo, and when it succeeds the variant whose upload
\* failed is persisted with both image fields empty.
C36_FailedVariantUploadIsTolerated ==
    \A p \in Procs :
        (req[p].op \in {"create", "update"} /\ req[p].failedColors # {}) =>
            /\ (req[p].pc = "done" /\ req[p].result = "ErrUpload") => req[p].uploadFailed
            /\ req[p].pc \notin {"idle", "HandlerVariant"} =>
                  \A c \in req[p].failedColors :
                      \E i \in DOMAIN req[p].variants : req[p].variants[i].color = c
            /\ Succeeded(p, req[p].op) =>
                  \A v \in VariantsOf(req[p].id) :
                      v.color \in req[p].failedColors => (v.photoURL = 0 /\ v.photoID = 0)

C36_Witness ==
    \E p \in Procs :
        /\ Succeeded(p, "update")
        /\ \E v \in VariantsOf(req[p].id) :
             /\ v.color \in req[p].failedColors
             /\ \E old \in req[p].before.variants : old.color = v.color /\ old.photoID # 0

\* the handles of stored images that request p carried forward from variants
\* that existed when it read the product, none of them uploaded by p; the handle of the old main
\* photo, which Update deletes when it replaces the photo, is left out
CarriedForward(p) ==
    (PreservedPhotoIDs(req[p].variants)
        \cap { old.photoID : old \in req[p].existing.variants }
        \cap req[p].existing.images)
      \ (req[p].uploaded \cup {req[p].existing.row.mainPhotoID})

\* C33: a failing Update issues no Media Store delete for an image that
\* existed before the request and was carried forward from an existing
\* variant; its compensation targets only images the request uploaded.
C33_FailedUpdateSparesCarriedImages ==
    \A p \in Procs :
        Failed(p, "update") => req[p].delIssued \cap CarriedForward(p) = {}

\* no write operation is in flight
Quiescent == \A p \in Procs : req[p].pc \in {"idle", "done"}

\* the handles of the images a Media Store delete has removed: the store
\* hands out each handle once, and only a delete takes an image away
DeletedImages == (1..(nextImg - 1)) \ media

\* C32: in every quiescent state no persisted product or variant row
\* references an image that a successful Media Store delete has removed.
C32_NoRowReferencesDeletedImage ==
    Quiescent =>
        /\ \A r \in products : r.mainPhotoID \notin DeletedImages
        /\ \A v \in variants : v.photoID \notin DeletedImages

\* the handles the persisted rows reference
ReferencedImages ==
    ({ r.mainPhotoID : r \in products } \cup { v.photoID : v \in variants }) \ {0}

\* C34: when two Updates of one product have both returned success, every
\* non-empty image handle the product's persisted variant rows reference
\* still exists in the Media Store.
C34_ConcurrentUpdatesKeepVariantImages ==
    \A p \in Procs : \A q \in Procs \ {p} :
        (Succeeded(p, "update") /\ Succeeded(q, "update") /\ req[p].id = req[q].id)
            => \A v \in VariantsOf(req[p].id) : v.photoID # 0 => v.photoID \in media

\* C35: when an Update that uploaded a replacement main image and a Delete of
\* the same product have both returned, the replacement image, if the Media
\* Store still holds it, is referenced by a persisted row or has had a delete
\* issued for it.
C35_UpdateWithDeleteLeaksNoImage ==
    \A p \in Procs : \A q \in Procs \ {p} :
        (/\ Returned(p, "update") /\ NewMainHandles(req[p]) \cap req[p].uploaded # {}
         /\ Returned(q, "delete") /\ req[q].existing.row # NoRow
         /\ req[p].id = req[q].id)
            => (NewMainHandles(req[p]) \cap req[p].uploaded \cap media)
                  \subseteq (ReferencedImages \cup req[p].delIssued \cup req[q].delIssued)
====
